---------------------------- MODULE Spec2Model ----------------------------
(***************************************************************************)
(* Token lifecycle and identity resolution of backend/src/core/security.py *)
(*                                                                         *)
(* Time is counted in ticks, TicksPerSecond ticks to the second, so that   *)
(* the sub-second part of datetime.now() and of a timedelta is visible.    *)
(* Text the code takes apart (the subject, the email) is a sequence of     *)
(* one-character strings; text it only compares (the type tag, a role) is  *)
(* a string.  An optional value (dict.get, a None default) is the empty    *)
(* set or a singleton.  Claims mappings range over the keys the repository *)
(* itself reads or writes: sub, email, type and exp.                       *)
(***************************************************************************)
EXTENDS Integers, Sequences, FiniteSets, TLC

VARIABLES
    now,        \* the wall clock, in ticks
    settings,   \* src.core.config.settings, fixed at start-up
    wallet,     \* the issue events so far: the tokens callers hold
    req,        \* the requests in flight, one record per request slot
    environ,    \* os.environ of the process
    boot,       \* the validation of SECRET_KEY while Settings() is built
    stores,     \* the data stores the scripts work on
    script      \* the run of a script of backend/scripts

vars == <<now, settings, wallet, req, environ, boot, stores, script>>

---------------------------------------------------------------------------
(* Bounds of the model *)

\* the resolution of the clock
TicksPerSecond == 2
\* tokens are issued at ticks 0 .. MaxIssueTick
MaxIssueTick == 1

---------------------------------------------------------------------------
(* Durations, in ticks *)

Seconds(n) == n * TicksPerSecond
Minutes(n) == Seconds(60 * n)
Days(n) == Seconds(86400 * n)

\* timedelta(minutes=15), security.py line 24
ACCESS_TOKEN_DEFAULT == Minutes(15)
\* timedelta(days=7), security.py line 35
REFRESH_TOKEN_DEFAULT == Days(7)

\* The expires_delta arguments tried: absent (None), or a timedelta.
Durations == {0 - Seconds(1), 0, 1, Seconds(1)}
ExpiresDeltas == {{}} \cup {{d} : d \in Durations}

\* bool(timedelta): a timedelta is falsy exactly when it is zero; None is falsy.
Truthy(expires_delta) == \E d \in expires_delta : d # 0

\* The instants the clock visits: the first seconds, and the ticks around
\* each expiration a token of the model can carry.
Instants ==
    LET early == 0 .. (MaxIssueTick + Seconds(1))
        around(x) == (x - 1) .. (x + MaxIssueTick)
    IN  early \cup around(ACCESS_TOKEN_DEFAULT) \cup around(REFRESH_TOKEN_DEFAULT)

MaxTime == REFRESH_TOKEN_DEFAULT + MaxIssueTick

---------------------------------------------------------------------------
(* Text *)

Rep(c, n) == [i \in 1 .. n |-> c]

HexLower == {"0", "1", "2", "3", "4", "5", "6", "7", "8", "9",
             "a", "b", "c", "d", "e", "f"}
HexUpper == {"A", "B", "C", "D", "E", "F"}

\* str.lower() on one hexadecimal digit
Lower(c) ==
    CASE c = "A" -> "a" [] c = "B" -> "b" [] c = "C" -> "c"
      [] c = "D" -> "d" [] c = "E" -> "e" [] c = "F" -> "f"
      [] OTHER -> c

\* str.replace(ch, ''): s without its occurrences of ch
RECURSIVE Without(_, _)
Without(s, ch) ==
    IF s = <<>> THEN <<>>
    ELSE IF Head(s) = ch THEN Without(Tail(s), ch)
    ELSE <<Head(s)>> \o Without(Tail(s), ch)

\* The index of the first ch in s, 0 when there is none
RECURSIVE IndexOf(_, _)
IndexOf(s, ch) ==
    IF s = <<>> THEN 0
    ELSE IF Head(s) = ch THEN 1
    ELSE LET i == IndexOf(Tail(s), ch) IN IF i = 0 THEN 0 ELSE i + 1

\* ch in s
Contains(s, ch) == IndexOf(s, ch) # 0

\* s.split(ch)[0]: the text before the first ch, all of s when there is none
SplitFirst(s, ch) ==
    IF Contains(s, ch) THEN SubSeq(s, 1, IndexOf(s, ch) - 1) ELSE s

---------------------------------------------------------------------------
(* uuid.UUID *)

\* A slip: the subject is taken as it is, unparsed
UUID_Unchecked(hex) == {Without(hex, "-")}

\* UUID(hex): hyphens are dropped, 32 hexadecimal digits are required
\* (ValueError otherwise); the value is kept as 32 lower-case digits.
UUID(hex) ==
    LET digits == Without(hex, "-")
    IN  IF Len(digits) = 32
           /\ \A i \in 1 .. 32 : digits[i] \in HexLower \cup HexUpper
        THEN {[i \in 1 .. 32 |-> Lower(digits[i])]}
        ELSE {}

\* str(uuid): the canonical 8-4-4-4-12 form
UuidStr(u) ==
    SubSeq(u, 1, 8) \o <<"-">> \o SubSeq(u, 9, 12) \o <<"-">>
        \o SubSeq(u, 13, 16) \o <<"-">> \o SubSeq(u, 17, 20) \o <<"-">>
        \o SubSeq(u, 21, 32)

---------------------------------------------------------------------------
(* dict *)

\* dict.get(key): the value, or None
Get(d, key) == IF key \in DOMAIN d THEN {d[key]} ELSE {}

\* d.copy() followed by .update(e): e's entries replace d's
Update(d, e) ==
    [k \in (DOMAIN d) \cup (DOMAIN e) |-> IF k \in DOMAIN e THEN e[k] ELSE d[k]]

\* A slip: only None is falsy
Not_NoneOnly(v) == v = {}

\* not v, for an optional text: None and the empty string are falsy
Not(v) == v = {} \/ v = {<<>>}

---------------------------------------------------------------------------
(* Configuration: src.core.config.settings *)

SECRET == "SECRET_KEY"
OTHER_KEY == "another key"

\* The settings a process can start with.  SECRET_KEY is required
\* (config.py line 19), ALGORITHM defaults to HS256 (line 57), the Supabase
\* settings default to the empty string (lines 52-53).
SettingsSet ==
    [SECRET_KEY : {SECRET}, ALGORITHM : {"HS256"}, TESTING : BOOLEAN,
     SUPABASE_URL : {"", "https://project.supabase.co"},
     SUPABASE_KEY : {"", "anon-key"}]

---------------------------------------------------------------------------
(* PyJWT: jwt.encode and jwt.decode *)

\* A token is what its three segments say: the header's algorithm, the
\* payload, and the key its signature was made with.

\* timegm(exp.utctimetuple()): a datetime claim is written as whole seconds
\* since the epoch, its sub-second part dropped.
Timestamp(t) == t \div TicksPerSecond

\* jwt.encode(payload, key, algorithm): the exp claim, a datetime, becomes an
\* integer timestamp; the other claims are written as they are.
jwt_encode(to_encode, key, algorithm) ==
    [alg |-> algorithm,
     payload |-> [k \in DOMAIN to_encode |->
                    IF k = "exp" THEN Timestamp(to_encode[k]) ELSE to_encode[k]],
     key |-> key]

\* The exp claim has passed: PyJWT (2.6 and later) raises when exp <= now,
\* now being datetime.now(tz=utc).timestamp() with its sub-second part.
Expired(payload, t) ==
    "exp" \in DOMAIN payload /\ Seconds(payload["exp"]) <= t

\* jwt.decode(token, key, algorithms) at time t: the algorithm must be one of
\* algorithms and the signature must verify (a PyJWTError otherwise), then
\* the exp claim must not have passed (ExpiredSignatureError, a PyJWTError
\* too); the payload otherwise.
jwt_decode(token, key, algorithms, t) ==
    IF token.alg \notin algorithms \/ token.key # key
    THEN [error |-> "PyJWTError", payload |-> {}]
    ELSE IF Expired(token.payload, t)
    THEN [error |-> "ExpiredSignatureError", payload |-> {}]
    ELSE [error |-> "", payload |-> {token.payload}]

---------------------------------------------------------------------------
(* Token issuer, security.py lines 19-38 *)

\* The expiration create_access_token injects (lines 21-24)
AccessExpire(expires_delta, t) ==
    IF Truthy(expires_delta)
    THEN t + (CHOOSE d \in expires_delta : TRUE)
    ELSE t + ACCESS_TOKEN_DEFAULT

\* A slip: the refresh issuer with the access issuer's default
RefreshExpire_AccessDefault(expires_delta, t) ==
    IF Truthy(expires_delta)
    THEN t + (CHOOSE d \in expires_delta : TRUE)
    ELSE t + ACCESS_TOKEN_DEFAULT

\* The expiration create_refresh_token injects (lines 32-35)
RefreshExpire(expires_delta, t) ==
    IF Truthy(expires_delta)
    THEN t + (CHOOSE d \in expires_delta : TRUE)
    ELSE t + REFRESH_TOKEN_DEFAULT

\* A slip: the caller's entries replace the injected ones
AccessClaims_KeepOwn(data, expire) == Update([exp |-> expire, type |-> "access"], data)

\* line 25: to_encode = data.copy(); to_encode.update({"exp": expire, "type": "access"})
AccessClaims(data, expire) == Update(data, [exp |-> expire, type |-> "access"])

\* line 36
RefreshClaims(data, expire) == Update(data, [exp |-> expire, type |-> "refresh"])

\* A slip: no copy is made, the entries are injected into the caller's mapping
CallerData_Aliased(data, to_encode) == to_encode

\* lines 20 and 31: to_encode = data.copy().  The caller's mapping after
\* the call: the update of lines 25 and 36 went to the copy.
CallerData(data, to_encode) == data

create_access_token(data, expires_delta, t, cfg) ==
    LET expire == AccessExpire(expires_delta, t)
        to_encode == AccessClaims(data, expire)
    IN  jwt_encode(to_encode, cfg.SECRET_KEY, cfg.ALGORITHM)

create_refresh_token(data, expires_delta, t, cfg) ==
    LET expire == RefreshExpire(expires_delta, t)
        to_encode == RefreshClaims(data, expire)
    IN  jwt_encode(to_encode, cfg.SECRET_KEY, cfg.ALGORITHM)

---------------------------------------------------------------------------
(* Outcomes of a call *)

\* raise HTTPException(status_code, detail).  kind is the spec's name for
\* the failure: TokenExpired, TokenInvalid or AuthorizationError.
HTTPException(kind, status_code, detail) ==
    [kind |-> kind, status |-> status_code, detail |-> detail,
     user |-> {}, claims |-> {}]

\* raise ValidationError(...), src.core.errors
ValidationError(detail) ==
    [kind |-> "ValidationError", status |-> 0, detail |-> detail,
     user |-> {}, claims |-> {}]

\* An exception no handler of security.py catches
Unhandled(exception) ==
    [kind |-> exception, status |-> 0, detail |-> "",
     user |-> {}, claims |-> {}]

\* return user (None is the empty set)
Returned(user) ==
    [kind |-> "User", status |-> 0, detail |-> "", user |-> user, claims |-> {}]

\* return payload
ReturnedClaims(payload) ==
    [kind |-> "Claims", status |-> 0, detail |-> "", user |-> {},
     claims |-> {payload}]

\* src.schemas.user.User(user_id=, full_name=, email=, role=)
User(user_id, full_name, email, role) ==
    [user_id |-> user_id, full_name |-> full_name, email |-> email, role |-> role]

---------------------------------------------------------------------------
(* verify_refresh_token, security.py lines 41-63 *)

\* A slip: only access tokens are turned away
RefreshTypeOk_NotAccess(payload) == Get(payload, "type") # {"access"}

\* line 45: the type check of verify_refresh_token
RefreshTypeOk(payload) == Get(payload, "type") = {"refresh"}

\* lines 52-63: the except clauses of verify_refresh_token
RefreshDecodeFailure(error) ==
    IF error = "ExpiredSignatureError"
    THEN HTTPException("TokenExpired", 401, "Refresh token expired")
    ELSE HTTPException("TokenInvalid", 401, "Invalid refresh token")

\* A slip: the subject and email checks of get_current_user copied in
verify_refresh_token_WithSubject(token, t, cfg) ==
    LET decoded == jwt_decode(token, cfg.SECRET_KEY, {cfg.ALGORITHM}, t)
    IN  IF decoded.error # ""
        THEN RefreshDecodeFailure(decoded.error)
        ELSE LET payload == CHOOSE p \in decoded.payload : TRUE
             IN  IF ~RefreshTypeOk(payload)
                 THEN HTTPException("TokenInvalid", 401, "Invalid token type")
                 ELSE IF Get(payload, "sub") = {} \/ Get(payload, "email") = {}
                 THEN HTTPException("TokenInvalid", 401, "Invalid token payload")
                 ELSE ReturnedClaims(payload)

\* lines 41-63
verify_refresh_token(token, t, cfg) ==
    LET decoded == jwt_decode(token, cfg.SECRET_KEY, {cfg.ALGORITHM}, t)
    IN  IF decoded.error # ""
        THEN RefreshDecodeFailure(decoded.error)
        ELSE LET payload == CHOOSE p \in decoded.payload : TRUE
             IN  IF ~RefreshTypeOk(payload)
                 THEN HTTPException("TokenInvalid", 401, "Invalid token type")
                 ELSE ReturnedClaims(payload)

---------------------------------------------------------------------------
(* get_current_user, security.py lines 69-140 *)

\* A slip: the type claim is only required to be there
AccessTypeOk_Present(payload) == Get(payload, "type") # {}

\* line 73: the type check of get_current_user
AccessTypeOk(payload) == Get(payload, "type") = {"access"}

\* A slip: the name is left as computed, without the "user" default
build_fallback_user_NoDefault(email, user_uuid) ==
    User(user_uuid,
         IF email # <<>> /\ Contains(email, "@")
         THEN SplitFirst(email, "@")
         ELSE UuidStr(user_uuid),
         email,
         "student")

\* A slip: the fallback identity built with the administrator's role
build_fallback_user_Admin(email, user_uuid) ==
    LET fallback_name ==
            IF email # <<>> /\ Contains(email, "@")
            THEN SplitFirst(email, "@")
            ELSE UuidStr(user_uuid)
    IN  User(user_uuid,
             IF fallback_name # <<>> THEN fallback_name ELSE <<"u", "s", "e", "r">>,
             email,
             "admin")

\* lines 105-112
build_fallback_user(email, user_uuid) ==
    LET fallback_name ==
            IF email # <<>> /\ Contains(email, "@")
            THEN SplitFirst(email, "@")
            ELSE UuidStr(user_uuid)
    IN  User(user_uuid,
             IF fallback_name # <<>> THEN fallback_name ELSE <<"u", "s", "e", "r">>,
             email,
             "student")

\* A slip: PyJWTError caught first, so that an expired token is an invalid one
AccessDecodeFailure_AllInvalid(error) ==
    HTTPException("TokenInvalid", 401, "Invalid authentication credentials")

\* lines 87-98: the except clauses of get_current_user
AccessDecodeFailure(error) ==
    IF error = "ExpiredSignatureError"
    THEN HTTPException("TokenExpired", 401, "Token expired")
    ELSE HTTPException("TokenInvalid", 401, "Invalid authentication credentials")

\* A slip: only the test flag is looked at
FallbackOnly_TestingOnly(cfg) == cfg.TESTING

\* line 114: the resolver answers from the token alone
FallbackOnly(cfg) ==
    cfg.TESTING \/ cfg.SUPABASE_URL = "" \/ cfg.SUPABASE_KEY = ""

\* A slip: subject and email are looked for before the type tag is
ResolveFromToken_PresenceFirst(token, t, cfg) ==
    LET decoded == jwt_decode(token, cfg.SECRET_KEY, {cfg.ALGORITHM}, t)
        ended(o) == [wait |-> FALSE, out |-> {o}, payload |-> decoded.payload,
                     uuid |-> {}]
    IN  IF decoded.error # ""
        THEN ended(AccessDecodeFailure(decoded.error))
        ELSE LET payload == CHOOSE p \in decoded.payload : TRUE
                 user_id == Get(payload, "sub")
                 email == Get(payload, "email")
             IN  IF Not(user_id) \/ Not(email)
                 THEN ended(HTTPException("TokenInvalid", 401, "Invalid token payload"))
                 ELSE IF ~AccessTypeOk(payload)
                 THEN ended(HTTPException("TokenInvalid", 401, "Invalid token type"))
                 ELSE LET user_uuid == UUID(CHOOSE s \in user_id : TRUE)
                          mail == CHOOSE e \in email : TRUE
                      IN  IF user_uuid = {}
                          THEN ended(ValidationError("Invalid user ID format"))
                          ELSE IF FallbackOnly(cfg)
                          THEN [wait |-> FALSE,
                                out |-> {Returned({build_fallback_user(mail,
                                            CHOOSE u \in user_uuid : TRUE)})},
                                payload |-> decoded.payload, uuid |-> user_uuid]
                          ELSE [wait |-> TRUE, out |-> {},
                                payload |-> decoded.payload, uuid |-> user_uuid]

\* lines 70-115, the part of get_current_user that runs before the lookup is
\* awaited.  wait says that the lookup was handed to the executor; out is
\* the outcome when the call has ended.
ResolveFromToken(token, t, cfg) ==
    LET decoded == jwt_decode(token, cfg.SECRET_KEY, {cfg.ALGORITHM}, t)
        ended(o) == [wait |-> FALSE, out |-> {o}, payload |-> decoded.payload,
                     uuid |-> {}]
    IN  IF decoded.error # ""
        THEN ended(AccessDecodeFailure(decoded.error))
        ELSE LET payload == CHOOSE p \in decoded.payload : TRUE
                 user_id == Get(payload, "sub")
                 email == Get(payload, "email")
             IN  IF ~AccessTypeOk(payload)
                 THEN ended(HTTPException("TokenInvalid", 401, "Invalid token type"))
                 ELSE IF Not(user_id) \/ Not(email)
                 THEN ended(HTTPException("TokenInvalid", 401, "Invalid token payload"))
                 ELSE LET user_uuid == UUID(CHOOSE s \in user_id : TRUE)
                          mail == CHOOSE e \in email : TRUE
                      IN  IF user_uuid = {}
                          THEN ended(ValidationError("Invalid user ID format"))
                          ELSE IF FallbackOnly(cfg)
                          THEN [wait |-> FALSE,
                                out |-> {Returned({build_fallback_user(mail,
                                            CHOOSE u \in user_uuid : TRUE)})},
                                payload |-> decoded.payload, uuid |-> user_uuid]
                          ELSE [wait |-> TRUE, out |-> {},
                                payload |-> decoded.payload, uuid |-> user_uuid]

\* What the profile store can answer to the one query of lines 118-125:
\* raised names the call that raised (none when empty); data is the
\* response's data attribute, None or a list of rows.
Row(full_name, email, role) ==
    [full_name |-> full_name, email |-> email, role |-> role]

AdminRow == Row(<<"A", "d", "a">>, <<"a", "d", "a", "@", "x">>, "admin")
StudentRow == Row(<<"B", "o", "b">>, <<"b", "o", "b", "@", "x">>, "student")

StoreAnswers ==
    {[raised |-> "get_supabase_client", data |-> {}],
     [raised |-> "execute", data |-> {}],
     [raised |-> "", data |-> {}],
     [raised |-> "", data |-> {<<>>}],
     [raised |-> "", data |-> {<<AdminRow>>}],
     [raised |-> "", data |-> {<<StudentRow, AdminRow>>}],
     [raised |-> "", data |-> {<<[full_name |-> <<"C">>, email |-> <<"c", "@", "x">>]>>}]}

\* A slip: the lookup outside the try block, its errors reaching the caller
ResolveFromStore_Propagates(answer, email, user_uuid) ==
    IF answer.raised # ""
    THEN Unhandled(answer.raised)
    ELSE IF answer.data = {} \/ answer.data = {<<>>}
    THEN Returned({build_fallback_user(email, user_uuid)})
    ELSE LET profile == (CHOOSE d \in answer.data : TRUE)[1]
         IN  IF {"full_name", "email", "role"} \subseteq DOMAIN profile
             THEN Returned({User(user_uuid, profile["full_name"],
                                 profile["email"], profile["role"])})
             ELSE Unhandled("KeyError")

\* lines 117-140, the part of get_current_user that runs once the store has
\* answered
ResolveFromStore(answer, email, user_uuid) ==
    IF answer.raised # ""
    THEN Returned({build_fallback_user(email, user_uuid)})
    ELSE IF answer.data = {} \/ answer.data = {<<>>}
    THEN Returned({build_fallback_user(email, user_uuid)})
    ELSE LET profile == (CHOOSE d \in answer.data : TRUE)[1]
         IN  IF {"full_name", "email", "role"} \subseteq DOMAIN profile
             THEN Returned({User(user_uuid, profile["full_name"],
                                 profile["email"], profile["role"])})
             ELSE Unhandled("KeyError")

---------------------------------------------------------------------------
(* get_current_admin, security.py lines 143-155 *)

\* lines 143-148: the first definition, which ends without a return
get_current_admin_first(current_user) ==
    IF current_user.role # "admin"
    THEN HTTPException("AuthorizationError", 403, "Admin access required")
    ELSE Returned({})

\* lines 149-155: the second definition
get_current_admin_second(current_user) ==
    IF current_user.role # "admin"
    THEN HTTPException("AuthorizationError", 403, "Admin access required")
    ELSE Returned({current_user})

\* A slip: the name left bound to the first definition
get_current_admin_Rebound(current_user) == get_current_admin_first(current_user)

\* The name get_current_admin is bound to the definition executed last.
get_current_admin(current_user) == get_current_admin_second(current_user)

\* Depends(get_current_user): the gate runs on the resolver's identity; a
\* failure of the resolver is the failure of the call.
Gate(op, outcome) ==
    IF op = "get_current_admin" /\ outcome.kind = "User" /\ outcome.user # {}
    THEN get_current_admin(CHOOSE u \in outcome.user : TRUE)
    ELSE outcome

---------------------------------------------------------------------------
(* The inputs of the model *)

\* "11111111-1111-1111-1111-111111111111"
CanonicalSub ==
    Rep("1", 8) \o <<"-">> \o Rep("1", 4) \o <<"-">> \o Rep("1", 4) \o <<"-">>
        \o Rep("1", 4) \o <<"-">> \o Rep("1", 12)
\* 32 upper-case digits without hyphens: UUID() accepts them
CompactSub == Rep("A", 32)
\* "not-a-uuid"
MalformedSub == <<"n", "o", "t", "-", "a", "-", "u", "u", "i", "d">>

\* "a@example.com"
ExampleEmail == <<"a", "@", "e", "x", "a", "m", "p", "l", "e", ".", "c", "o", "m">>
\* "bob" and "@x": an email without "@", and one with nothing before it
BareEmail == <<"b", "o", "b">>
NoLocalEmail == <<"@", "x">>

\* The claims mappings handed to the issuer
DataSet ==
    {[sub |-> CanonicalSub, email |-> ExampleEmail],
     [sub |-> CompactSub, email |-> ExampleEmail, type |-> "refresh", exp |-> 0],
     [sub |-> CompactSub, email |-> ExampleEmail, type |-> "access"],
     [sub |-> MalformedSub, email |-> ExampleEmail],
     [sub |-> CanonicalSub],
     [sub |-> <<>>, email |-> ExampleEmail],
     [sub |-> CanonicalSub, email |-> BareEmail],
     [sub |-> CanonicalSub, email |-> NoLocalEmail],
     [sub |-> MalformedSub, email |-> <<>>],
     [sub |-> CompactSub, email |-> BareEmail]}

\* Tokens that reach the verifiers from elsewhere: signed with another key
\* or under another algorithm, or signed with the secret by another issuer.
LaterThanAll == Timestamp(MaxTime) + 1

ForeignTokens ==
    LET good == [sub |-> CanonicalSub, email |-> ExampleEmail,
                 type |-> "access", exp |-> LaterThanAll]
        signed(payload) == [alg |-> "HS256", payload |-> payload, key |-> SECRET]
    IN  {[alg |-> "HS256", payload |-> good, key |-> OTHER_KEY],
         [alg |-> "HS512", payload |-> good, key |-> SECRET],
         [alg |-> "HS256", payload |-> [good EXCEPT !["exp"] = 1], key |-> OTHER_KEY],
         signed([sub |-> CanonicalSub, email |-> ExampleEmail, exp |-> LaterThanAll]),
         signed([good EXCEPT !["type"] = "bearer"]),
         signed([sub |-> CanonicalSub, email |-> ExampleEmail, type |-> "access"]),
         signed([sub |-> MalformedSub, type |-> "bearer", exp |-> 1]),
         signed([type |-> "refresh", exp |-> LaterThanAll])}

---------------------------------------------------------------------------
(* The process environment *)

\* os.getenv(name): the value, or None
getenv(env, name) == Get(env, name)

\* os.getenv(name, default)
getenv_default(env, name, default) ==
    IF name \in DOMAIN env THEN env[name] ELSE default

\* bool(text), for an optional text: None and the empty string are falsy
Bool(v) == v # {} /\ v # {<<>>}

\* An environment that sets none of the variables the repository reads
PlainEnviron == [HOME |-> <<"/">>]

\* No SECRET_KEY is under validation
NotBooting == [pc |-> "loaded", TESTING |-> {}, v |-> <<>>, result |-> {}]

\* Stores without data
NoData ==
    [users |-> {}, profiles |-> {}, enrollments |-> {}, progress |-> {},
     sessions |-> {}, activity |-> {}, lessons |-> {}, courses |-> {},
     sb_profiles |-> {}, sb_auth |-> {}]

\* No script is running.  name, pc and status are the script, the function
\* main() is about to call and the exit status; before is what the stores
\* held when the script started, seeded what the last run of e2e_seed
\* created, last the script that ran before this one.
NoScript ==
    [name |-> "", pc |-> "", status |-> {}, client |-> "awaitable",
     before |-> NoData, seeded |-> {}, last |-> "",
     last_status |-> {}, todo |-> <<>>]

---------------------------------------------------------------------------
(* The state machine *)

Requests == {"r1"}

\* A request slot: pc is where the call stands (idle, lookup: awaiting the
\* profile store, done); op, token and at are the call, its argument and
\* the time of the call; payload and uuid are the locals of get_current_user
\* alive across the await; queries counts the store queries of the call;
\* answer is what the store answered; identity is what get_current_user
\* ended with and out what the whole call ended with.

IdleRequest ==
    [pc |-> "idle", op |-> "", token |-> {}, at |-> 0, payload |-> {},
     uuid |-> {}, queries |-> 0, answer |-> {}, identity |-> {}, out |-> {}]

Init ==
    /\ now = 0
    /\ settings \in SettingsSet
    /\ wallet = {}
    /\ req = [r \in Requests |-> IdleRequest]
    /\ environ = PlainEnviron
    /\ boot = NotBooting
    /\ stores = NoData
    /\ script = NoScript

\* The tokens a caller can present
Presentable == {e.token : e \in wallet}

\* Time passes.  The outcome of a finished call goes back to its caller
\* before the clock is read again.
Tick ==
    /\ \A r \in Requests : req[r].pc # "done"
    /\ \E t \in Instants : t > now /\ now' = t
    /\ UNCHANGED <<settings, wallet, req, environ, boot, stores, script>>

\* A caller holds a token that this issuer did not make.
ReceiveToken(token) ==
    /\ wallet = {}
    /\ wallet' = wallet \cup
          {[by |-> "elsewhere", data |-> token.payload, expires_delta |-> {},
            at |-> now, expire |-> 0, token |-> token,
            after |-> token.payload]}
    /\ UNCHANGED <<now, settings, req, environ, boot, stores, script>>

\* A caller obtains an access token and keeps it.
CreateAccessToken(data, expires_delta) ==
    /\ wallet = {}
    /\ now <= MaxIssueTick
    /\ wallet' = wallet \cup
          {[by |-> "create_access_token", data |-> data,
            expires_delta |-> expires_delta, at |-> now,
            expire |-> AccessExpire(expires_delta, now),
            token |-> create_access_token(data, expires_delta, now, settings),
            after |-> CallerData(data,
                        AccessClaims(data, AccessExpire(expires_delta, now)))]}
    /\ UNCHANGED <<now, settings, req, environ, boot, stores, script>>

\* A caller obtains a refresh token and keeps it.
CreateRefreshToken(data, expires_delta) ==
    /\ wallet = {}
    /\ now <= MaxIssueTick
    /\ wallet' = wallet \cup
          {[by |-> "create_refresh_token", data |-> data,
            expires_delta |-> expires_delta, at |-> now,
            expire |-> RefreshExpire(expires_delta, now),
            token |-> create_refresh_token(data, expires_delta, now, settings),
            after |-> CallerData(data,
                        RefreshClaims(data, RefreshExpire(expires_delta, now)))]}
    /\ UNCHANGED <<now, settings, req, environ, boot, stores, script>>

\* A refresh request: verify_refresh_token runs to its end.
VerifyRefreshToken(r, token) ==
    /\ req[r].pc = "idle"
    /\ req' = [req EXCEPT ![r] =
          [pc |-> "done", op |-> "verify_refresh_token", token |-> {token},
           at |-> now, payload |-> {}, uuid |-> {}, queries |-> 0,
           answer |-> {}, identity |-> {},
           out |-> {verify_refresh_token(token, now, settings)}]]
    /\ UNCHANGED <<now, settings, wallet, environ, boot, stores, script>>

\* A slip: the query made on the event loop itself (no run_in_executor): a
\* request that arrives while a lookup is pending is accepted but stays
\* behind that lookup, its own resolution not begun
GetCurrentUser_Blocking(r, op, token) ==
    /\ req[r].pc = "idle"
    /\ LET res == ResolveFromToken(token, now, settings)
           held == \E q \in DOMAIN req : req[q].pc = "lookup"
       IN  req' = [req EXCEPT ![r] =
              [pc |-> IF held THEN "waiting"
                      ELSE IF res.wait THEN "lookup" ELSE "done",
               op |-> op, token |-> {token}, at |-> now,
               payload |-> IF held THEN {} ELSE res.payload,
               uuid |-> IF held THEN {} ELSE res.uuid,
               queries |-> IF ~held /\ res.wait THEN 1 ELSE 0,
               answer |-> {},
               identity |-> IF held THEN {} ELSE res.out,
               out |-> IF held THEN {} ELSE {Gate(op, o) : o \in res.out}]]
    /\ UNCHANGED <<now, settings, wallet, environ, boot, stores, script>>

\* A request to a protected route (op names the dependency of the route):
\* get_current_user runs up to its end or up to the awaited lookup.
GetCurrentUser(r, op, token) ==
    /\ req[r].pc = "idle"
    /\ LET res == ResolveFromToken(token, now, settings)
       IN  req' = [req EXCEPT ![r] =
              [pc |-> IF res.wait THEN "lookup" ELSE "done",
               op |-> op, token |-> {token}, at |-> now,
               payload |-> res.payload, uuid |-> res.uuid,
               queries |-> IF res.wait THEN 1 ELSE 0,
               answer |-> {}, identity |-> res.out,
               out |-> {Gate(op, o) : o \in res.out}]]
    /\ UNCHANGED <<now, settings, wallet, environ, boot, stores, script>>

\* A slip: a lookup that raised or gave no record is issued once more
ProfileLookupReturns_Retry(r, answer) ==
    /\ req[r].pc = "lookup"
    /\ LET payload == CHOOSE p \in req[r].payload : TRUE
           user_uuid == CHOOSE u \in req[r].uuid : TRUE
           res == ResolveFromStore(answer, payload["email"], user_uuid)
           again == req[r].queries = 1
                      /\ (answer.raised # "" \/ answer.data \in {{}, {<<>>}})
       IN  req' = [req EXCEPT ![r].pc = IF again THEN "lookup" ELSE "done",
                              ![r].queries = IF again THEN 2 ELSE @,
                              ![r].answer = {answer},
                              ![r].identity = IF again THEN {} ELSE {res},
                              ![r].out = IF again THEN {}
                                         ELSE {Gate(req[r].op, res)}]
    /\ UNCHANGED <<now, settings, wallet, environ, boot, stores, script>>

\* The profile store answers the pending lookup of request r.
ProfileLookupReturns(r, answer) ==
    /\ req[r].pc = "lookup"
    /\ LET payload == CHOOSE p \in req[r].payload : TRUE
           user_uuid == CHOOSE u \in req[r].uuid : TRUE
           res == ResolveFromStore(answer, payload["email"], user_uuid)
       IN  req' = [req EXCEPT ![r].pc = "done",
                              ![r].answer = {answer},
                              ![r].identity = {res},
                              ![r].out = {Gate(req[r].op, res)}]
    /\ UNCHANGED <<now, settings, wallet, environ, boot, stores, script>>

\* The outcome goes back to the caller; the slot is free again.
Respond(r) ==
    /\ req[r].pc = "done"
    /\ req' = [req EXCEPT ![r] = IdleRequest]
    /\ UNCHANGED <<now, settings, wallet, environ, boot, stores, script>>

Next ==
    \/ Tick
    \/ \E token \in ForeignTokens : ReceiveToken(token)
    \/ \E data \in DataSet, d \in ExpiresDeltas : CreateAccessToken(data, d)
    \/ \E data \in DataSet, d \in ExpiresDeltas : CreateRefreshToken(data, d)
    \/ \E r \in Requests, token \in Presentable : VerifyRefreshToken(r, token)
    \/ \E r \in Requests, token \in Presentable :
          \E op \in {"get_current_user", "get_current_admin"} :
             GetCurrentUser(r, op, token)
    \/ \E r \in Requests, answer \in StoreAnswers : ProfileLookupReturns(r, answer)
    \/ \E r \in Requests : Respond(r)

Spec == Init /\ [][Next]_vars

---------------------------------------------------------------------------
(* Requests in flight together *)

\* Two requests served by one event loop
InFlight == {"r1", "r2"}

\* The claims mappings of the two callers
ConcurrentData ==
    {[sub |-> CanonicalSub, email |-> ExampleEmail],
     [sub |-> CompactSub, email |-> BareEmail]}

\* Each caller holds an access token issued at time 0 with the default
\* validity.
InitConcurrent ==
    /\ now = 0
    /\ settings \in SettingsSet
    /\ wallet = {[by |-> "create_access_token", data |-> data,
                  expires_delta |-> {}, at |-> 0,
                  expire |-> AccessExpire({}, 0),
                  token |-> create_access_token(data, {}, 0, settings),
                  after |-> CallerData(data, AccessClaims(data, AccessExpire({}, 0)))]
                 : data \in ConcurrentData}
    /\ req = [r \in InFlight |-> IdleRequest]
    /\ environ = PlainEnviron
    /\ boot = NotBooting
    /\ stores = NoData
    /\ script = NoScript

\* The awaited lookup (lines 119-125) takes its time: while one is pending
\* the clock reaches the expiration of the tokens.
LookupTakesTime ==
    /\ \E r \in InFlight : req[r].pc = "lookup"
    /\ now < ACCESS_TOKEN_DEFAULT
    /\ now' = ACCESS_TOKEN_DEFAULT
    /\ UNCHANGED <<settings, wallet, req, environ, boot, stores, script>>

NextConcurrent ==
    \/ LookupTakesTime
    \/ \E r \in InFlight, token \in Presentable :
          \E op \in {"get_current_user", "get_current_admin"} :
             GetCurrentUser(r, op, token)
    \/ \E r \in InFlight, answer \in StoreAnswers : ProfileLookupReturns(r, answer)
    \/ \E r \in InFlight : Respond(r)

SpecConcurrent == InitConcurrent /\ [][NextConcurrent]_vars

---------------------------------------------------------------------------
(* A token presented again *)

\* Settings with a profile store, in and out of test mode
ReplaySettings ==
    {s \in SettingsSet : s.SUPABASE_URL # "" /\ s.SUPABASE_KEY # ""}

ReplayData ==
    {[sub |-> CanonicalSub, email |-> ExampleEmail],
     [sub |-> CompactSub, email |-> ExampleEmail, type |-> "refresh", exp |-> 0]}

ReplayDeltas == {{}, {1}, {Seconds(1)}}

ReplayAnswers ==
    {[raised |-> "execute", data |-> {}], [raised |-> "", data |-> {<<AdminRow>>}]}

InitReplay ==
    /\ now = 0
    /\ settings \in ReplaySettings
    /\ wallet = {}
    /\ req = [r \in InFlight |-> IdleRequest]
    /\ environ = PlainEnviron
    /\ boot = NotBooting
    /\ stores = NoData
    /\ script = NoScript

\* Time passes, whatever the requests are doing.
ClockAdvances ==
    /\ \E t \in Instants : t > now /\ now' = t
    /\ UNCHANGED <<settings, wallet, req, environ, boot, stores, script>>

NextReplay ==
    \/ ClockAdvances
    \/ \E data \in ReplayData, d \in ReplayDeltas : CreateAccessToken(data, d)
    \/ \E data \in ReplayData, d \in ReplayDeltas : CreateRefreshToken(data, d)
    \/ \E r \in InFlight, token \in Presentable : VerifyRefreshToken(r, token)
    \/ \E r \in InFlight, token \in Presentable :
          GetCurrentUser(r, "get_current_user", token)
    \/ \E r \in InFlight, answer \in ReplayAnswers : ProfileLookupReturns(r, answer)
    \/ \E r \in InFlight : Respond(r)

SpecReplay == InitReplay /\ [][NextReplay]_vars

---------------------------------------------------------------------------
(* Settings.validate_secret_key, config.py lines 21-38 *)

\* line 29: the least length of a key outside test mode
SECRET_KEY_MIN_LENGTH == 32

\* str.isupper(), islower(), isdigit() and isalnum() on one ASCII character
isupper(c) ==
    c \in {"A", "B", "C", "D", "E", "F", "G", "H", "I", "J", "K", "L", "M",
           "N", "O", "P", "Q", "R", "S", "T", "U", "V", "W", "X", "Y", "Z"}
islower(c) ==
    c \in {"a", "b", "c", "d", "e", "f", "g", "h", "i", "j", "k", "l", "m",
           "n", "o", "p", "q", "r", "s", "t", "u", "v", "w", "x", "y", "z"}
isdigit(c) == c \in {"0", "1", "2", "3", "4", "5", "6", "7", "8", "9"}
isalnum(c) == isupper(c) \/ islower(c) \/ isdigit(c)

\* lines 32-35: any(... for c in v)
has_upper(v) == \E i \in 1 .. Len(v) : isupper(v[i])
has_lower(v) == \E i \in 1 .. Len(v) : islower(v[i])
has_digit(v) == \E i \in 1 .. Len(v) : isdigit(v[i])
has_special(v) == \E i \in 1 .. Len(v) : ~isalnum(v[i])

\* raise ValueError(message), and return v
ValueError(message) == [error |-> message, value |-> {}]
Validated(v) == [error |-> "", value |-> {v}]

\* A slip: only the TESTING field decides
is_testing_FieldOnly(data_TESTING, env) == TRUE \in data_TESTING

\* line 26.  data_TESTING is info.data.get('TESTING'): the validated TESTING
\* field, None when that field did not validate.
is_testing(data_TESTING, env) ==
    (TRUE \in data_TESTING) \/ Bool(getenv(env, "PYTEST_CURRENT_TEST"))

\* lines 23-38
validate_secret_key(v, data_TESTING, env) ==
    IF v = <<>>
    THEN ValueError("SECRET_KEY is required")
    ELSE IF is_testing(data_TESTING, env)
    THEN Validated(v)
    ELSE IF Len(v) < SECRET_KEY_MIN_LENGTH
    THEN ValueError("SECRET_KEY must be at least 32 characters long")
    ELSE IF ~(has_upper(v) /\ has_lower(v) /\ has_digit(v) /\ has_special(v))
    THEN ValueError("SECRET_KEY must contain at least one uppercase letter, one lowercase letter, one digit, and one special character")
    ELSE Validated(v)

\* The keys tried: the empty key; every selection from an upper-case
\* letter, a lower-case letter, a digit and a symbol, in two alphabets, as it
\* is and filled up with its first character to the lengths around the
\* least length
KeySamples == {<<"A", "a", "1", "!">>, <<"Z", "z", "9", " ">>}

Pick(sample, S) ==
    LET F[i \in 0 .. Len(sample)] ==
            IF i = 0 THEN <<>>
            ELSE IF i \in S THEN Append(F[i - 1], sample[i]) ELSE F[i - 1]
    IN  F[Len(sample)]

KeySeeds ==
    {Pick(sample, S) : sample \in KeySamples,
                       S \in (SUBSET (1 .. 4)) \ {{}}}

Pad(cs, n) == cs \o Rep(cs[1], n - Len(cs))

Keys ==
    {<<>>} \cup KeySeeds
        \cup {Pad(cs, n) : cs \in KeySeeds,
                           n \in (SECRET_KEY_MIN_LENGTH - 1) .. (SECRET_KEY_MIN_LENGTH + 1)}

\* The environments Settings() is built in
BootEnvirons ==
    {PlainEnviron,
     [HOME |-> <<"/">>, PYTEST_CURRENT_TEST |-> <<>>],
     [HOME |-> <<"/">>, PYTEST_CURRENT_TEST |-> <<"t", "e", "s", "t">>]}

\* The values of Settings before its fields are validated
Unloaded ==
    [SECRET_KEY |-> "", ALGORITHM |-> "HS256", TESTING |-> FALSE,
     SUPABASE_URL |-> "", SUPABASE_KEY |-> ""]

\* Settings() has come to the SECRET_KEY field (TESTING is validated before
\* it, line 16).
InitSettings ==
    /\ now = 0
    /\ settings = Unloaded
    /\ wallet = {}
    /\ req = [r \in Requests |-> IdleRequest]
    /\ environ \in BootEnvirons
    /\ boot \in [pc : {"SECRET_KEY"}, TESTING : {{}, {TRUE}, {FALSE}},
                  v : Keys, result : {{}}]
    /\ stores = NoData
    /\ script = NoScript

\* The validator runs on the key.
ValidateSecretKey ==
    /\ boot.pc = "SECRET_KEY"
    /\ boot' = [boot EXCEPT
                  !.pc = "loaded",
                  !.result = {validate_secret_key(boot.v, boot.TESTING, environ)}]
    /\ UNCHANGED <<now, settings, wallet, req, environ, stores, script>>

NextSettings == ValidateSecretKey

SpecSettings == InitSettings /\ [][NextSettings]_vars

---------------------------------------------------------------------------
(* The scripts backend/scripts/e2e_seed.py and e2e_cleanup.py *)

\* str.lower() on ASCII text
UpperAlphabet ==
    <<"A", "B", "C", "D", "E", "F", "G", "H", "I", "J", "K", "L", "M",
      "N", "O", "P", "Q", "R", "S", "T", "U", "V", "W", "X", "Y", "Z">>
LowerAlphabet ==
    <<"a", "b", "c", "d", "e", "f", "g", "h", "i", "j", "k", "l", "m",
      "n", "o", "p", "q", "r", "s", "t", "u", "v", "w", "x", "y", "z">>

str_lower(s) ==
    [i \in 1 .. Len(s) |->
        IF \E k \in 1 .. Len(UpperAlphabet) : UpperAlphabet[k] = s[i]
        THEN LowerAlphabet[CHOOSE k \in 1 .. Len(UpperAlphabet) : UpperAlphabet[k] = s[i]]
        ELSE s[i]]

ADMIN == <<"A", "D", "M", "I", "N">>
STUDENT == <<"S", "T", "U", "D", "E", "N", "T">>

\* e2e_seed.py lines 28-54
TEST_USERS(env) ==
    <<[email |-> getenv_default(env, "E2E_ADMIN_EMAIL", "testadmin@example.com"),
       full_name |-> "Test Admin", role |-> ADMIN],
      [email |-> getenv_default(env, "E2E_STUDENT_EMAIL", "teststudent@example.com"),
       full_name |-> "Test Student", role |-> STUDENT],
      [email |-> getenv_default(env, "E2E_STUDENT2_EMAIL", "teststudent2@example.com"),
       full_name |-> "Test Student Two", role |-> STUDENT],
      [email |-> getenv_default(env, "E2E_INACTIVE_EMAIL", "testinactive@example.com"),
       full_name |-> "Inactive Test User", role |-> STUDENT]>>

\* e2e_seed.py lines 58-83: the courses, by slug
TEST_COURSES == <<"ml-foundations", "ml-fundamentals", "python-basics">>

\* e2e_seed.py lines 87-194
TEST_LESSONS ==
    <<[slug |-> "supervised-vs-unsupervised", course_slug |-> "ml-foundations"],
      [slug |-> "getting-started-with-python", course_slug |-> "python-basics"]>>

\* e2e_seed.py lines 198-202
TEST_ENROLLMENTS ==
    <<[user_email |-> "teststudent@example.com", course_slug |-> "ml-foundations"],
      [user_email |-> "teststudent@example.com", course_slug |-> "python-basics"],
      [user_email |-> "teststudent2@example.com", course_slug |-> "ml-fundamentals"]>>

\* e2e_seed.py lines 206-208
TEST_PROGRESS ==
    <<[user_email |-> "teststudent@example.com", course_slug |-> "ml-foundations",
       lesson_slug |-> "supervised-vs-unsupervised"]>>

\* e2e_cleanup.py lines 32-39
TEST_USER_EMAILS ==
    <<"testadmin@example.com", "teststudent@example.com",
      "teststudent2@example.com", "testinactive@example.com",
      "testuser1@example.com", "testuser2@example.com">>

\* e2e_cleanup.py lines 42-46
TEST_COURSE_SLUGS == <<"ml-foundations", "ml-fundamentals", "python-basics">>

\* The elements of a list
Range(list) == {list[i] : i \in 1 .. Len(list)}

\* uuid.uuid4(): an identifier no row has
UuidPool == <<"uuid-1", "uuid-2", "uuid-3", "uuid-4", "uuid-5", "uuid-6">>
uuid4(db) ==
    LET used == {u.id : u \in db.users} \cup {q.id : q \in db.profiles}
        free == {i \in 1 .. Len(UuidPool) : UuidPool[i] \notin used}
    IN  UuidPool[CHOOSE i \in free : \A j \in free : i <= j]

\* select(User.id).where(User.email == email), then .scalar(): the id of a
\* row, or None
UserIdByEmail(db, email) == {u.id : u \in {x \in db.users : x.email = email}}
scalar(ids) == IF ids = {} THEN {} ELSE {CHOOSE id \in ids : TRUE}

\* The statements that raise in a run of a step: none, or those for one
\* email, or those for one course
FailingEmails == {{}, {"teststudent@example.com"}}
FailingSlugs == {{}, {"python-basics"}}

\* The rows under one slug that the model lets the courses table come to
MaxCopies == 2

\* The elements of the list before its element x
Before(list, x) ==
    SubSeq(list, 1, (CHOOSE i \in 1 .. Len(list) : list[i] = x) - 1)

\* A row of a table, as the scripts' records of what they created and deleted
Item(table, row) == [table |-> table, row |-> row]

\* e2e_seed.py lines 336-376: seed_test_users on the rest of TEST_USERS
RECURSIVE seed_test_users(_, _)
seed_test_users(db, users) ==
    IF users = <<>> THEN db
    ELSE LET user_data == Head(users)
         IN  IF scalar(UserIdByEmail(db, user_data.email)) # {}
             THEN seed_test_users(db, Tail(users))
             ELSE LET user_id == uuid4(db)
                      user == [id |-> user_id, email |-> user_data.email,
                               full_name |-> user_data.full_name,
                               role |-> user_data.role,
                               status |-> IF user_data.email # "testinactive@example.com"
                                          THEN "ACTIVE" ELSE "BLOCKED"]
                      profile == [id |-> user_id, email |-> user_data.email,
                                  full_name |-> user_data.full_name,
                                  role |-> str_lower(user_data.role)]
                  IN  seed_test_users([db EXCEPT !.users = @ \cup {user},
                                                 !.profiles = @ \cup {profile}],
                                      Tail(users))

\* insert(course_data) into a table that takes the row: the row is one
\* more row under its slug
InsertedCourse(db, slug) ==
    [slug |-> slug, copy |-> Cardinality({x \in db.courses : x.slug = slug}) + 1]

\* e2e_seed.py lines 211-231, the awaits of the client succeeding.  failed
\* are the slugs whose existence check raises: the bare except of lines
\* 224-225 passes and the course is inserted.
RECURSIVE seed_test_courses(_, _, _)
seed_test_courses(db, courses, failed) ==
    IF courses = <<>> THEN db
    ELSE IF Head(courses) \notin failed /\ \E x \in db.courses : x.slug = Head(courses)
    THEN seed_test_courses(db, Tail(courses), failed)
    ELSE seed_test_courses(
            [db EXCEPT !.courses = @ \cup {InsertedCourse(db, Head(courses))}],
            Tail(courses), failed)

\* e2e_seed.py lines 234-255
RECURSIVE seed_test_lessons(_, _)
seed_test_lessons(db, lessons) ==
    IF lessons = <<>> THEN db
    ELSE IF Head(lessons) \in db.lessons
    THEN seed_test_lessons(db, Tail(lessons))
    ELSE seed_test_lessons([db EXCEPT !.lessons = @ \cup {Head(lessons)}],
                           Tail(lessons))

\* e2e_seed.py lines 258-292
RECURSIVE seed_test_enrollments(_, _)
seed_test_enrollments(db, enrollments) ==
    IF enrollments = <<>> THEN db
    ELSE LET enrollment_data == Head(enrollments)
             user_id == scalar(UserIdByEmail(db, enrollment_data.user_email))
             rows == {[user_id |-> id, course_slug |-> enrollment_data.course_slug]
                      : id \in user_id}
         IN  IF user_id = {} \/ rows \subseteq db.enrollments
             THEN seed_test_enrollments(db, Tail(enrollments))
             ELSE seed_test_enrollments([db EXCEPT !.enrollments = @ \cup rows],
                                        Tail(enrollments))

\* e2e_seed.py lines 295-333
RECURSIVE seed_test_progress(_, _)
seed_test_progress(db, progress) ==
    IF progress = <<>> THEN db
    ELSE LET progress_data == Head(progress)
             user_id == scalar(UserIdByEmail(db, progress_data.user_email))
             rows == {[user_id |-> id, course_slug |-> progress_data.course_slug,
                       lesson_slug |-> progress_data.lesson_slug] : id \in user_id}
         IN  IF user_id = {} \/ rows \subseteq db.progress
             THEN seed_test_progress(db, Tail(progress))
             ELSE seed_test_progress([db EXCEPT !.progress = @ \cup rows],
                                     Tail(progress))

\* e2e_cleanup.py lines 49-101: cleanup_test_users on the rest of
\* TEST_USER_EMAILS
RECURSIVE cleanup_test_users(_, _)
cleanup_test_users(db, emails) ==
    IF emails = <<>> THEN db
    ELSE LET user_id == scalar(UserIdByEmail(db, Head(emails)))
             others(rows) == {x \in rows : x.user_id \notin user_id}
         IN  IF user_id = {}
             THEN cleanup_test_users(db, Tail(emails))
             ELSE cleanup_test_users(
                    [db EXCEPT !.sessions = others(@),
                               !.activity = others(@),
                               !.progress = others(@),
                               !.enrollments = others(@),
                               !.profiles = {x \in @ : x.id \notin user_id},
                               !.users = {x \in @ : x.id \notin user_id}],
                    Tail(emails))

\* e2e_cleanup.py lines 109-114 and 140-145: the Supabase credentials
\* are both there (`a or b` is truthy when one of the two is)
CredentialsAvailable(env, cfg) ==
    /\ Bool(getenv(env, "TEST_SUPABASE_URL")) \/ cfg.SUPABASE_URL # ""
    /\ Bool(getenv(env, "TEST_SUPABASE_SERVICE_ROLE_KEY"))
          \/ cfg.SUPABASE_SERVICE_ROLE_KEY # ""

\* e2e_cleanup.py lines 104-132.  The delete is sent by execute() whether
\* or not its result can be awaited.
cleanup_test_courses(db, env, cfg) ==
    IF ~CredentialsAvailable(env, cfg) THEN db
    ELSE [db EXCEPT !.courses = {x \in @ : x.slug \notin Range(TEST_COURSE_SLUGS)}]

\* e2e_cleanup.py lines 135-177 on the rest of TEST_USER_EMAILS, the awaits
\* of the client succeeding
RECURSIVE cleanup_supabase_users(_, _)
cleanup_supabase_users(db, emails) ==
    IF emails = <<>> THEN db
    ELSE LET profiles == {x \in db.sb_profiles : x.email = Head(emails)}
             user_id == scalar({x.id : x \in profiles})
         IN  IF profiles = {}
             THEN cleanup_supabase_users(db, Tail(emails))
             ELSE cleanup_supabase_users(
                    [db EXCEPT !.sb_auth = {x \in @ : x.id \notin user_id},
                               !.sb_profiles = {x \in @ : x.id \notin user_id}],
                    Tail(emails))

\* e2e_cleanup.py lines 186-193 and 234-241
TestUserIds(db) ==
    UNION {scalar(UserIdByEmail(db, email)) : email \in Range(TEST_USER_EMAILS)}

\* A slip: the enrollments in the test courses deleted, whoever the user is
cleanup_test_enrollments_AnyUser(db) ==
    [db EXCEPT !.enrollments =
        {x \in @ : x.course_slug \notin Range(TEST_COURSE_SLUGS)}]

\* e2e_cleanup.py lines 180-225
cleanup_test_enrollments(db) ==
    [db EXCEPT !.enrollments =
        {x \in @ : ~(x.user_id \in TestUserIds(db)
                     /\ x.course_slug \in Range(TEST_COURSE_SLUGS))}]

\* e2e_cleanup.py lines 228-273
cleanup_test_progress(db) ==
    [db EXCEPT !.progress =
        {x \in @ : ~(x.user_id \in TestUserIds(db)
                     /\ x.course_slug \in Range(TEST_COURSE_SLUGS))}]

\* The rows of the stores, table by table
Items(db) ==
    UNION {{Item(table, row) : row \in db[table]} : table \in DOMAIN db}

\* The settings the scripts run under
ScriptSettings ==
    [SECRET_KEY : {SECRET}, ALGORITHM : {"HS256"}, TESTING : BOOLEAN,
     SUPABASE_URL : {"", "https://project.supabase.co"},
     SUPABASE_KEY : {"anon-key"},
     SUPABASE_SERVICE_ROLE_KEY : {"", "service-key"}]

\* The environments the scripts run in: ENVIRONMENT unset, "production",
\* "PRODUCTION" or "staging"; the admin's email as it is or overridden; the
\* test project's credentials unset or set
ScriptEnvirons ==
    LET production == <<"p", "r", "o", "d", "u", "c", "t", "i", "o", "n">>
        environment ==
            {PlainEnviron,
             [ENVIRONMENT |-> production],
             [ENVIRONMENT |-> <<"P", "R", "O", "D", "U", "C", "T", "I", "O", "N">>],
             [ENVIRONMENT |-> <<"s", "t", "a", "g", "i", "n", "g">>]}
        admin == {PlainEnviron, [E2E_ADMIN_EMAIL |-> "admin@corp.example"]}
        project ==
            {PlainEnviron,
             [TEST_SUPABASE_URL |-> <<"h", "t", "t", "p", "s", ":">>,
              TEST_SUPABASE_SERVICE_ROLE_KEY |-> <<"k", "e", "y">>]}
    IN  {Update(Update(Update(PlainEnviron, a), b), c) :
            a \in environment, b \in admin, c \in project}

\* Data that is there before any script runs: a user of the platform with
\* an enrollment, progress and a session, a course under a slug of the test
\* courses, and an account of the integration tests in Supabase
OtherData ==
    [NoData EXCEPT
        !.users = {[id |-> "uuid-6", email |-> "alice@example.com",
                    full_name |-> "Alice", role |-> STUDENT, status |-> "ACTIVE"]},
        !.profiles = {[id |-> "uuid-6", email |-> "alice@example.com",
                       full_name |-> "Alice", role |-> str_lower(STUDENT)]},
        !.enrollments = {[user_id |-> "uuid-6", course_slug |-> "python-basics"]},
        !.progress = {[user_id |-> "uuid-6", course_slug |-> "python-basics",
                       lesson_slug |-> "getting-started-with-python"]},
        !.sessions = {[user_id |-> "uuid-6"]},
        !.courses = {[slug |-> "python-basics", copy |-> 1]},
        !.sb_profiles = {[id |-> "sb-1", email |-> "testuser1@example.com"]},
        !.sb_auth = {[id |-> "sb-1", email |-> "testuser1@example.com"]}]

\* No script has run.  client says whether what the Supabase client returns
\* can be awaited: "awaitable", or "plain" (the await raises TypeError once
\* the call itself has run).
InitScripts ==
    /\ now = 0
    /\ settings \in ScriptSettings
    /\ wallet = {}
    /\ req = [r \in Requests |-> IdleRequest]
    /\ environ \in ScriptEnvirons
    /\ boot = NotBooting
    /\ stores \in {NoData, OtherData}
    /\ script \in {[NoScript EXCEPT !.client = client]
                    : client \in {"awaitable", "plain"}}

\* asyncio.run(main()) of a script, once the script before it has ended
StartScript(name) ==
    /\ script.pc \in {"", "exit"}
    /\ script' = [script EXCEPT
                    !.name = name,
                    !.pc = IF name = "e2e_seed" THEN "seed_test_users"
                           ELSE "safety_check",
                    !.status = {},
                    !.before = stores,
                    !.seeded = IF name = "e2e_seed" THEN {} ELSE @,
                    !.last = script.name,
                    !.last_status = script.status]
    /\ UNCHANGED <<now, settings, wallet, req, environ, boot, stores>>

\* The script is e2e_seed and main() is about to call step
Seeding(step) == script.name = "e2e_seed" /\ script.pc = step

\* main() of e2e_seed goes on to the next step, or ends with the status
SeedGoesOn(next, db) ==
    /\ stores' = db
    /\ script' = [script EXCEPT
                    !.pc = next,
                    !.status = IF next = "exit" THEN {0} ELSE {},
                    !.seeded = Items(db) \ Items(script.before)]
    /\ UNCHANGED <<now, settings, wallet, req, environ, boot>>

\* e2e_seed.py line 390
SeedTestUsers ==
    /\ Seeding("seed_test_users")
    /\ SeedGoesOn("seed_test_courses", seed_test_users(stores, TEST_USERS(environ)))

\* e2e_seed.py line 391.  With a plain client the await of line 220 raises
\* inside the try, the await of line 228 raises before anything is sent,
\* and main() ends with sys.exit(1) (lines 408-412).  With an awaitable
\* client an existence check may raise; the insert that follows for a course
\* that is there adds a row, or raises in a table that refuses the row, and
\* main() ends with sys.exit(1) then.
SeedTestCourses ==
    /\ Seeding("seed_test_courses")
    /\ IF script.client = "plain"
       THEN /\ script' = [script EXCEPT !.pc = "exit", !.status = {1}]
            /\ UNCHANGED <<now, settings, wallet, req, environ, boot, stores>>
       ELSE \E failed \in FailingSlugs :
               \/ /\ \A slug \in failed :
                        Cardinality({x \in stores.courses : x.slug = slug}) < MaxCopies
                  /\ SeedGoesOn("seed_test_lessons",
                                seed_test_courses(stores, TEST_COURSES, failed))
               \/ \E slug \in failed :
                     /\ \E x \in stores.courses : x.slug = slug
                     /\ stores' = seed_test_courses(stores, Before(TEST_COURSES, slug), {})
                     /\ script' = [script EXCEPT
                                     !.pc = "exit", !.status = {1},
                                     !.seeded = Items(stores') \ Items(script.before)]
                     /\ UNCHANGED <<now, settings, wallet, req, environ, boot>>

\* e2e_seed.py line 392
SeedTestLessons ==
    /\ Seeding("seed_test_lessons")
    /\ SeedGoesOn("seed_test_enrollments", seed_test_lessons(stores, TEST_LESSONS))

\* e2e_seed.py line 393
SeedTestEnrollments ==
    /\ Seeding("seed_test_enrollments")
    /\ SeedGoesOn("seed_test_progress",
                  seed_test_enrollments(stores, TEST_ENROLLMENTS))

\* e2e_seed.py lines 394-406
SeedTestProgress ==
    /\ Seeding("seed_test_progress")
    /\ SeedGoesOn("exit", seed_test_progress(stores, TEST_PROGRESS))

\* The script is e2e_cleanup and main() is about to call step
Cleaning(step) == script.name = "e2e_cleanup" /\ script.pc = step

\* main() of e2e_cleanup goes on to the next step, or ends with the status
CleanupGoesOn(next, db) ==
    /\ stores' = db
    /\ script' = [script EXCEPT !.pc = next,
                                !.status = IF next = "exit" THEN {0} ELSE {}]
    /\ UNCHANGED <<now, settings, wallet, req, environ, boot>>

\* A slip: the check of the environment left out
CleanupAllowed_TestingOnly(cfg, env) == cfg.TESTING

\* e2e_cleanup.py lines 281-289: neither safety check ends the script
CleanupAllowed(cfg, env) ==
    /\ cfg.TESTING
    /\ str_lower(getenv_default(env, "ENVIRONMENT",
                                <<"d", "e", "v", "e", "l", "o", "p", "m", "e", "n", "t">>))
          # <<"p", "r", "o", "d", "u", "c", "t", "i", "o", "n">>

\* e2e_cleanup.py lines 280-289: sys.exit(1) unless the checks pass
CleanupSafetyCheck ==
    /\ Cleaning("safety_check")
    /\ script' = IF CleanupAllowed(settings, environ)
                 THEN [script EXCEPT !.pc = "cleanup_test_courses"]
                 ELSE [script EXCEPT !.pc = "exit", !.status = {1}]
    /\ UNCHANGED <<now, settings, wallet, req, environ, boot, stores>>

\* The emails of the list but those whose statements raise: the handler of
\* the loop prints the error and goes on to the next email
Remaining(emails, failed) == SelectSeq(emails, LAMBDA email : email \notin failed)

\* e2e_cleanup.py line 293.  A delete that raises (lines 129-131) leaves the
\* course of that slug in place.
CleanupTestCourses ==
    /\ Cleaning("cleanup_test_courses")
    /\ \E failed \in FailingSlugs :
          LET db == cleanup_test_courses(stores, environ, settings)
          IN  CleanupGoesOn("cleanup_supabase_users",
                 [db EXCEPT !.courses = @ \cup {x \in stores.courses : x.slug \in failed}])

\* e2e_cleanup.py line 294.  With a plain client the await of line 153
\* raises for every email and is caught at line 173: nothing is deleted.
CleanupSupabaseUsers ==
    /\ Cleaning("cleanup_supabase_users")
    /\ \E failed \in FailingEmails :
          CleanupGoesOn("cleanup_test_users",
             IF CredentialsAvailable(environ, settings) /\ script.client = "awaitable"
             THEN cleanup_supabase_users(stores, Remaining(TEST_USER_EMAILS, failed))
             ELSE stores)

\* e2e_cleanup.py line 298.  A statement that raises for an email is caught
\* at lines 83-89 and the loop goes on.
CleanupTestUsers ==
    /\ Cleaning("cleanup_test_users")
    /\ \E failed \in FailingEmails :
          CleanupGoesOn("cleanup_test_enrollments",
                        cleanup_test_users(stores, Remaining(TEST_USER_EMAILS, failed)))

\* e2e_cleanup.py line 299.  A delete that raises (lines 211-216) leaves the
\* enrollments in that course in place.
CleanupTestEnrollments ==
    /\ Cleaning("cleanup_test_enrollments")
    /\ \E failed \in FailingSlugs :
          LET db == cleanup_test_enrollments(stores)
          IN  CleanupGoesOn("cleanup_test_progress",
                 [db EXCEPT !.enrollments =
                     @ \cup {x \in stores.enrollments : x.course_slug \in failed}])

\* e2e_cleanup.py lines 300-309.  A delete that raises (lines 259-264)
\* leaves the progress records in that course in place.
CleanupTestProgress ==
    /\ Cleaning("cleanup_test_progress")
    /\ \E failed \in FailingSlugs :
          LET db == cleanup_test_progress(stores)
          IN  CleanupGoesOn("exit",
                 [db EXCEPT !.progress =
                     @ \cup {x \in stores.progress : x.course_slug \in failed}])

NextScripts ==
    \/ \E name \in {"e2e_seed", "e2e_cleanup"} : StartScript(name)
    \/ SeedTestUsers
    \/ SeedTestCourses
    \/ SeedTestLessons
    \/ SeedTestEnrollments
    \/ SeedTestProgress
    \/ CleanupSafetyCheck
    \/ CleanupTestCourses
    \/ CleanupSupabaseUsers
    \/ CleanupTestUsers
    \/ CleanupTestEnrollments
    \/ CleanupTestProgress

SpecScripts == InitScripts /\ [][NextScripts]_vars

---------------------------------------------------------------------------
(* The script backend/scripts/integration_seed.py *)

\* integration_seed.py lines 33-64: TEST_USERS of this script
INTEGRATION_TEST_USERS ==
    <<[email |-> "testuser1@example.com", full_name |-> "Test User One",
       role |-> "student"],
      [email |-> "testuser2@example.com", full_name |-> "Test User Two",
       role |-> "student"],
      [email |-> "testadmin@example.com", full_name |-> "Test Admin",
       role |-> "admin"],
      [email |-> "teststudent@example.com", full_name |-> "Regular Test Student",
       role |-> "student"],
      [email |-> "testinactive@example.com", full_name |-> "Inactive Test User",
       role |-> "student"]>>

\* response.user.id of auth.admin.create_user: an identifier no account and
\* no profile has
AuthIdPool == <<"auth-1", "auth-2", "auth-3", "auth-4", "auth-5", "auth-6">>
NewAuthId(db) ==
    LET used == {a.id : a \in db.sb_auth} \cup {q.id : q \in db.sb_profiles}
        free == {i \in 1 .. Len(AuthIdPool) : AuthIdPool[i] \notin used}
    IN  AuthIdPool[CHOOSE i \in free : \A j \in free : i <= j]

\* integration_seed.py lines 133-143.  fails names the call of the loop
\* iteration that raises ("" when none does): an error of the query is
\* logged and the answer is False.
_user_exists(db, email, fails) ==
    IF fails = "_user_exists" THEN FALSE
    ELSE \E q \in db.sb_profiles : q.email = email

\* integration_seed.py lines 150-172, one iteration of the loop of
\* seed_test_users: the check (152-154), _create_user_in_auth (157, lines
\* 80-106; the auth store refuses an email it has), _create_user_profile
\* (160, lines 108-131).  What raises is logged at 169-172 and the loop
\* goes on; nothing that was created is taken back.
seed_test_user(db, user_data, fails) ==
    IF _user_exists(db, user_data.email, fails) THEN db
    ELSE IF fails = "create_user" \/ \E a \in db.sb_auth : a.email = user_data.email
    THEN db
    ELSE LET user_id == NewAuthId(db)
             created == [db EXCEPT !.sb_auth =
                            @ \cup {[id |-> user_id, email |-> user_data.email]}]
         IN  IF fails = "insert" THEN created
             ELSE [created EXCEPT !.sb_profiles =
                      @ \cup {[id |-> user_id, email |-> user_data.email]}]

\* integration_seed.py lines 181-214, one iteration of the loop of
\* cleanup_test_users: the query of the profile (184-187), delete_user
\* (197-203, its error only logged), the delete of the profile (206-209).
cleanup_test_user(db, user_data, fails) ==
    IF fails = "select" THEN db
    ELSE LET profiles == {q \in db.sb_profiles : q.email = user_data.email}
         IN  IF profiles = {} THEN db
             ELSE LET user_id == (CHOOSE q \in profiles : TRUE).id
                      deleted ==
                          IF fails = "delete_user" THEN db
                          ELSE [db EXCEPT !.sb_auth = {a \in @ : a.id # user_id}]
                  IN  IF fails = "delete" THEN deleted
                      ELSE [deleted EXCEPT !.sb_profiles = {q \in @ : q.id # user_id}]

\* The calls that may raise in an iteration: those for two of the emails
FailureProne == {"testadmin@example.com", "teststudent@example.com"}
SeedFailures(email) ==
    IF email \in FailureProne THEN {"", "_user_exists", "create_user", "insert"}
    ELSE {""}
CleanupFailures(email) ==
    IF email \in FailureProne THEN {"", "select", "delete_user", "delete"}
    ELSE {""}

\* No run of the script yet; the stores are empty or hold a paired account
InitIntegration ==
    /\ now = 0
    /\ settings \in {cfg \in ScriptSettings :
                        cfg.TESTING /\ cfg.SUPABASE_URL # ""
                           /\ cfg.SUPABASE_SERVICE_ROLE_KEY # ""}
    /\ wallet = {}
    /\ req = [r \in Requests |-> IdleRequest]
    /\ environ = PlainEnviron
    /\ boot = NotBooting
    /\ stores \in {NoData, OtherData}
    /\ script = NoScript

\* integration_seed.py lines 282-286: main() or cleanup_main() is run, once
\* the run before it has ended; the loop is at its first user
StartIntegration(name) ==
    /\ script.todo = <<>>
    /\ script' = [script EXCEPT !.name = name, !.pc = "loop", !.status = {},
                                !.before = stores, !.last = script.name,
                                !.last_status = script.status,
                                !.todo = INTEGRATION_TEST_USERS]
    /\ UNCHANGED <<now, settings, wallet, req, environ, boot, stores>>

\* The loop goes on to the next user; the run ends after the last one
LoopGoesOn(db) ==
    /\ stores' = db
    /\ script' = [script EXCEPT
                    !.todo = Tail(@),
                    !.pc = IF Tail(script.todo) = <<>> THEN "exit" ELSE "loop",
                    !.status = IF Tail(script.todo) = <<>> THEN {0} ELSE {}]
    /\ UNCHANGED <<now, settings, wallet, req, environ, boot>>

\* integration_seed.py lines 149-172.  The model stops seeding when its
\* identifiers are used up.
SeedTestUser ==
    /\ script.name = "integration_seed" /\ script.todo # <<>>
    /\ \E i \in 1 .. Len(AuthIdPool) :
          AuthIdPool[i] \notin {a.id : a \in stores.sb_auth}
                                  \cup {q.id : q \in stores.sb_profiles}
    /\ \E fails \in SeedFailures(Head(script.todo).email) :
          LoopGoesOn(seed_test_user(stores, Head(script.todo), fails))

\* integration_seed.py lines 180-214
CleanupTestUser ==
    /\ script.name = "integration_cleanup" /\ script.todo # <<>>
    /\ \E fails \in CleanupFailures(Head(script.todo).email) :
          LoopGoesOn(cleanup_test_user(stores, Head(script.todo), fails))

NextIntegration ==
    \/ \E name \in {"integration_seed", "integration_cleanup"} :
          StartIntegration(name)
    \/ SeedTestUser
    \/ CleanupTestUser

SpecIntegration == InitIntegration /\ [][NextIntegration]_vars

---------------------------------------------------------------------------
(* Vocabulary of the properties *)

\* The issue events of this issuer
Issued == {e \in wallet : e.by # "elsewhere"}

\* The calls under way or ended
Calls == {r \in Requests : req[r].pc # "idle"}
Ended == {r \in Requests : req[r].pc = "done"}

TokenOf(r) == CHOOSE token \in req[r].token : TRUE
ClaimsOf(r) == TokenOf(r).payload
Outcome(r) == CHOOSE o \in req[r].out : TRUE

\* The kind of the outcome; "pending" while the lookup is awaited
KindOf(r) == IF req[r].out = {} THEN "pending" ELSE Outcome(r).kind

\* The call resolves an identity (with or without the admin gate)
Resolving(r) == req[r].op \in {"get_current_user", "get_current_admin"}

\* A time in whole seconds, rounded down
WholeSeconds(t) == t \div TicksPerSecond

\* The type tag an issuer stamps
Stamp(e) == IF e.by = "create_access_token" THEN "access" ELSE "refresh"

\* The validity duration of an issue event: the explicit one, the issuer's
\* default when none was passed
ValidityDuration(e) ==
    IF e.expires_delta # {} THEN CHOOSE d \in e.expires_delta : TRUE
    ELSE IF e.by = "create_access_token" THEN ACCESS_TOKEN_DEFAULT
    ELSE REFRESH_TOKEN_DEFAULT

\* The text is a well-formed UUID: 32 hexadecimal digits, hyphens apart
WellFormedUuid(s) ==
    LET digits == SelectSeq(s, LAMBDA c : c # "-")
    IN  Len(digits) = 32 /\ \A i \in 1 .. 32 : digits[i] \in HexLower \cup HexUpper

\* The claims mapping carries a UUID subject and an email
CarriesSubjectAndEmail(data) ==
    /\ "sub" \in DOMAIN data /\ WellFormedUuid(data["sub"])
    /\ "email" \in DOMAIN data /\ data["email"] # <<>>

\* The token is presented to the verifier that goes with its issuer
OwnVerifier(e, r) ==
    \/ e.by = "create_access_token" /\ req[r].op = "get_current_user"
    \/ e.by = "create_refresh_token" /\ req[r].op = "verify_refresh_token"

\* The token is presented to the other issuer's verifier
OtherVerifier(e, r) ==
    \/ e.by = "create_refresh_token" /\ req[r].op = "get_current_user"
    \/ e.by = "create_access_token" /\ req[r].op = "verify_refresh_token"

\* The call of r took the token of e and decoded it to the original claims
\* plus the injected exp (in whole seconds) and type
AcceptedWithClaims(e, r) ==
    LET expected == Update(e.data, [exp |-> WholeSeconds(e.at + ValidityDuration(e)),
                                    type |-> Stamp(e)])
    IN  IF req[r].op = "verify_refresh_token"
        THEN req[r].out = {ReturnedClaims(expected)}
        ELSE /\ req[r].payload = {expected}
             /\ KindOf(r) \notin {"TokenExpired", "TokenInvalid", "ValidationError"}

\* The signature of the token verifies under the configured secret and algorithm
SignatureVerifies(token) ==
    token.key = settings.SECRET_KEY /\ token.alg = settings.ALGORITHM

\* The instant, in ticks, of the token's exp claim
ExpInstant(token) == token.payload["exp"] * TicksPerSecond

\* Signature and expiration of the token are valid at time t
ValidAt(token, t) ==
    /\ SignatureVerifies(token)
    /\ "exp" \in DOMAIN token.payload => t < ExpInstant(token)

\* The subject claim of the token is there and is no well-formed UUID
SubjectNotUuid(token) ==
    "sub" \in DOMAIN token.payload /\ ~WellFormedUuid(token.payload["sub"])

\* Signature, expiration, type tag and the presence of subject and email are
\* in order: steps 1 to 3 of the resolver pass
PassesTokenChecks(token, t) ==
    /\ ValidAt(token, t)
    /\ Get(token.payload, "type") = {"access"}
    /\ ~Not(Get(token.payload, "sub"))
    /\ ~Not(Get(token.payload, "email"))

\* The settings under which no lookup is made
TestModeOrNoStore ==
    settings.TESTING \/ settings.SUPABASE_URL = "" \/ settings.SUPABASE_KEY = ""

\* The text of s before its first "@"; empty when s has no "@"
TextBeforeAt(s) == SubSeq(s, 1, IndexOf(s, "@") - 1)

---------------------------------------------------------------------------
(* C1 *)

\* C1, as stated: a token issued at time t with validity duration D, from
\* claims carrying a UUID subject and an email, and presented to its own
\* verifier at any time strictly before t + D is accepted, the decoded
\* payload being the original claims plus the injected exp and type.
C1_AcceptedBeforeDeadline ==
    \A e \in Issued, r \in Calls :
        (/\ req[r].token = {e.token}
         /\ OwnVerifier(e, r)
         /\ CarriesSubjectAndEmail(e.data)
         /\ req[r].at < e.at + ValidityDuration(e))
        => AcceptedWithClaims(e, r)

\* C1, amended: the same, for a presentation strictly before the exp
\* instant, which is t + D rounded down to whole seconds.
C1_AcceptedBeforeExp ==
    \A e \in Issued, r \in Calls :
        (/\ req[r].token = {e.token}
         /\ OwnVerifier(e, r)
         /\ CarriesSubjectAndEmail(e.data)
         /\ req[r].at < Seconds(WholeSeconds(e.at + ValidityDuration(e))))
        => AcceptedWithClaims(e, r)

\* A token whose t + D is not a whole second, accepted some time after its issue
C1_Witness ==
    \E e \in Issued, r \in Ended :
        /\ req[r].token = {e.token}
        /\ OwnVerifier(e, r)
        /\ CarriesSubjectAndEmail(e.data)
        /\ (e.at + ValidityDuration(e)) % TicksPerSecond # 0
        /\ e.at < req[r].at
        /\ req[r].at < Seconds(WholeSeconds(e.at + ValidityDuration(e)))
        /\ AcceptedWithClaims(e, r)

---------------------------------------------------------------------------
(* C2 *)

\* C2: a token whose signature verifies, presented to get_current_user or to
\* verify_refresh_token after the instant of its exp claim, fails with
\* TokenExpired, whatever its type tag and its other claims.
C2_ExpiredIsTokenExpired ==
    \A r \in Calls :
        (/\ SignatureVerifies(TokenOf(r))
         /\ "exp" \in DOMAIN ClaimsOf(r)
         /\ req[r].at > ExpInstant(TokenOf(r)))
        => KindOf(r) = "TokenExpired"

\* An expired token with a type tag of neither kind and a malformed subject
\* was presented to the resolver
C2_Witness ==
    \E r \in Ended :
        /\ SignatureVerifies(TokenOf(r))
        /\ "exp" \in DOMAIN ClaimsOf(r)
        /\ req[r].at > ExpInstant(TokenOf(r))
        /\ Get(ClaimsOf(r), "type") = {"bearer"}
        /\ SubjectNotUuid(TokenOf(r))
        /\ Resolving(r)
        /\ KindOf(r) = "TokenExpired"

---------------------------------------------------------------------------
(* C3 *)

\* C3, as stated: a token of create_refresh_token presented to
\* get_current_user, and a token of create_access_token presented to
\* verify_refresh_token, fails with TokenInvalid.
C3_WrongVerifierIsTokenInvalid ==
    \A e \in Issued, r \in Calls :
        (req[r].token = {e.token} /\ OtherVerifier(e, r))
        => KindOf(r) = "TokenInvalid"

\* C3, amended: such a presentation always fails: with TokenInvalid (wrong
\* token type) before the instant of the token's exp claim, with
\* TokenExpired from that instant on.
C3_WrongVerifierFails ==
    \A e \in Issued, r \in Calls :
        (req[r].token = {e.token} /\ OtherVerifier(e, r))
        => IF req[r].at < ExpInstant(e.token)
           THEN /\ KindOf(r) = "TokenInvalid"
                /\ Outcome(r).detail = "Invalid token type"
           ELSE KindOf(r) = "TokenExpired"

\* A refresh token turned away by the resolver for its type, before it expired
C3_Witness ==
    \E e \in Issued, r \in Ended :
        /\ req[r].token = {e.token}
        /\ e.by = "create_refresh_token"
        /\ req[r].op = "get_current_user"
        /\ CarriesSubjectAndEmail(e.data)
        /\ req[r].at < ExpInstant(e.token)
        /\ KindOf(r) = "TokenInvalid"

---------------------------------------------------------------------------
(* C4 *)

\* C4: get_current_user goes on to an identity only for a token whose type
\* claim is "access", and verify_refresh_token returns claims only for a
\* token whose type claim is "refresh"; a missing or other type is never
\* accepted.
C4_TypeMatchesOperation ==
    \A r \in Calls :
        /\ (Resolving(r) /\ KindOf(r) \in {"pending", "User"})
            => Get(ClaimsOf(r), "type") = {"access"}
        /\ (req[r].op = "verify_refresh_token" /\ KindOf(r) = "Claims")
            => Get(ClaimsOf(r), "type") = {"refresh"}

\* A token without a type claim, its signature and expiration valid, was
\* turned away by verify_refresh_token
C4_Witness ==
    \E r \in Ended :
        /\ req[r].op = "verify_refresh_token"
        /\ ValidAt(TokenOf(r), req[r].at)
        /\ Get(ClaimsOf(r), "type") = {}
        /\ KindOf(r) = "TokenInvalid"

---------------------------------------------------------------------------
(* C5 *)

\* C5, as stated: a token presented to get_current_user whose subject claim
\* is not a well-formed UUID ends in ValidationError.
C5_NonUuidIsValidationError ==
    \A r \in Calls :
        (Resolving(r) /\ SubjectNotUuid(TokenOf(r)))
        => KindOf(r) = "ValidationError"

\* C5, amended: such a token never ends in an identity and never reaches the
\* profile store, in any mode; it ends in ValidationError when signature,
\* expiration, type tag and the presence of subject and email are in order.
C5_NonUuidNeverIdentity ==
    \A r \in Calls :
        (Resolving(r) /\ SubjectNotUuid(TokenOf(r)))
        => /\ req[r].pc = "done"
           /\ req[r].queries = 0
           /\ Outcome(r).user = {}
           /\ KindOf(r) # "User"
           /\ PassesTokenChecks(TokenOf(r), req[r].at)
                => KindOf(r) = "ValidationError"

\* A malformed subject in an otherwise good access token, outside test mode
C5_Witness ==
    \E r \in Ended :
        /\ Resolving(r)
        /\ SubjectNotUuid(TokenOf(r))
        /\ PassesTokenChecks(TokenOf(r), req[r].at)
        /\ ~TestModeOrNoStore
        /\ KindOf(r) = "ValidationError"

---------------------------------------------------------------------------
(* C6 *)

\* The identity synthesized from the claims of the call's token, its display
\* name being name
IdentityFromClaims(r, name) ==
    [user_id |-> CHOOSE u \in UUID(ClaimsOf(r)["sub"]) : TRUE,
     full_name |-> name,
     email |-> ClaimsOf(r)["email"],
     role |-> "student"]

\* The token of the call passes every check of the resolver
AcceptedAccessToken(r) ==
    /\ PassesTokenChecks(TokenOf(r), req[r].at)
    /\ WellFormedUuid(ClaimsOf(r)["sub"])

\* C6, as stated: in test mode, or with SUPABASE_URL or SUPABASE_KEY empty,
\* get_current_user on an accepted access token makes no query and returns
\* the identity with the token's subject and email, role "student" and the
\* email's local-part as display name.
C6_FallbackNameIsLocalPart ==
    \A r \in Calls :
        (/\ req[r].op = "get_current_user"
         /\ TestModeOrNoStore
         /\ AcceptedAccessToken(r))
        => /\ req[r].pc = "done"
           /\ req[r].queries = 0
           /\ req[r].out =
                {Returned({IdentityFromClaims(r, TextBeforeAt(ClaimsOf(r)["email"]))})}

\* C6, amended: the same, for a token whose email has a non-empty text
\* before its first "@"; for any accepted access token no query is made and
\* the identity has the token's subject and email and role "student".
C6_FallbackWithoutLookup ==
    \A r \in Calls :
        (/\ req[r].op = "get_current_user"
         /\ TestModeOrNoStore
         /\ AcceptedAccessToken(r))
        => /\ req[r].pc = "done"
           /\ req[r].queries = 0
           /\ req[r].answer = {}
           /\ KindOf(r) = "User"
           /\ Cardinality(Outcome(r).user) = 1
           /\ \A u \in Outcome(r).user :
                /\ {u.user_id} = UUID(ClaimsOf(r)["sub"])
                /\ u.email = ClaimsOf(r)["email"]
                /\ u.role = "student"
                /\ TextBeforeAt(u.email) # <<>>
                     => u.full_name = TextBeforeAt(u.email)

\* The scenario of the spec outside test mode, the store's key being empty:
\* a@example.com resolves to the display name "a"
C6_Witness ==
    \E r \in Ended :
        /\ req[r].op = "get_current_user"
        /\ ~settings.TESTING /\ settings.SUPABASE_URL # "" /\ settings.SUPABASE_KEY = ""
        /\ Get(ClaimsOf(r), "sub") = {CanonicalSub}
        /\ req[r].out = {Returned({[user_id |-> Rep("1", 32), full_name |-> <<"a">>,
                                    email |-> ExampleEmail, role |-> "student"]})}

---------------------------------------------------------------------------
(* C7 *)

\* C7: with the store configured and test mode off, an error raised while
\* the store client is obtained or the lookup is executed does not reach
\* the caller: get_current_user returns the identity synthesized from the
\* token's claims.
C7_StoreErrorFallsBack ==
    \A r \in Ended :
        (/\ req[r].op = "get_current_user"
         /\ \E a \in req[r].answer : a.raised # "")
        => /\ ~TestModeOrNoStore
           /\ KindOf(r) = "User"
           /\ req[r].out = {Returned({build_fallback_user(ClaimsOf(r)["email"],
                                CHOOSE u \in UUID(ClaimsOf(r)["sub"]) : TRUE)})}
           /\ \A u \in Outcome(r).user :
                /\ {u.user_id} = UUID(ClaimsOf(r)["sub"])
                /\ u.email = ClaimsOf(r)["email"]
                /\ u.role = "student"

\* The store client could not be obtained, and the call returned an identity
C7_Witness ==
    \E r \in Ended :
        /\ req[r].op = "get_current_user"
        /\ \E a \in req[r].answer : a.raised = "get_supabase_client"
        /\ KindOf(r) = "User"
        /\ Outcome(r).user # {}

---------------------------------------------------------------------------
(* C8 *)

\* C8: get_current_admin returns the identity of get_current_user, unchanged,
\* exactly when its role is "admin", and fails with the authorization
\* failure (403), returning no identity, for any other role.
C8_AdminGate ==
    \A r \in Ended :
        req[r].op = "get_current_admin"
        => \A i \in req[r].identity :
              IF i.kind = "User"
              THEN \A u \in i.user :
                      IF u.role = "admin"
                      THEN req[r].out = {Returned({u})}
                      ELSE /\ KindOf(r) = "AuthorizationError"
                           /\ Outcome(r).status = 403
                           /\ Outcome(r).user = {}
              ELSE req[r].out = {i}

\* An administrator went through the gate
C8_Witness ==
    \E r \in Ended :
        /\ req[r].op = "get_current_admin"
        /\ KindOf(r) = "User"
        /\ \E u \in Outcome(r).user : u.role = "admin"

---------------------------------------------------------------------------
(* C9 *)

\* C9, as stated: the expiration an issuer injects is the issue time plus the
\* explicit duration, whatever the duration (zero included), and the issue
\* time plus the issuer's default (15 minutes, 7 days) when none was passed.
C9_ExpireIsIssueTimePlusDuration ==
    \A e \in Issued : e.expire = e.at + ValidityDuration(e)

---------------------------------------------------------------------------
(* C10 *)

\* C10: a token of create_access_token carries type "access" and a token of
\* create_refresh_token type "refresh", with the exp claim the issuer
\* computed, also when the caller's mapping has type or exp entries of its
\* own.
C10_InjectedClaimsWin ==
    \A e \in Issued :
        /\ {"type", "exp"} \subseteq DOMAIN e.token.payload
        /\ e.token.payload["type"] = Stamp(e)
        /\ e.token.payload["exp"] = WholeSeconds(e.expire)
        /\ \A k \in DOMAIN e.data \ {"type", "exp"} :
              k \in DOMAIN e.token.payload /\ e.token.payload[k] = e.data[k]

\* An access token made from a mapping with entries type "refresh" and exp
\* of its own
C10_Witness ==
    \E e \in Issued :
        /\ e.by = "create_access_token"
        /\ Get(e.data, "type") = {"refresh"}
        /\ "exp" \in DOMAIN e.data
        /\ e.token.payload["exp"] # e.data["exp"]

---------------------------------------------------------------------------
(* C11 *)

\* The claim is absent from the token, or is the empty text
AbsentOrEmpty(token, key) ==
    key \notin DOMAIN token.payload \/ token.payload[key] = <<>>

\* C11: get_current_user on a token of type access, validly signed and
\* unexpired, whose subject or email claim is absent or empty ends with
\* TokenInvalid ("Invalid token payload"): it returns no identity, has
\* parsed no UUID and has made no profile lookup.
C11_MissingClaimIsTokenInvalid ==
    \A r \in Calls :
        (/\ Resolving(r)
         /\ ValidAt(TokenOf(r), req[r].at)
         /\ Get(ClaimsOf(r), "type") = {"access"}
         /\ AbsentOrEmpty(TokenOf(r), "sub") \/ AbsentOrEmpty(TokenOf(r), "email"))
        => /\ req[r].pc = "done"
           /\ req[r].out = {HTTPException("TokenInvalid", 401, "Invalid token payload")}
           /\ req[r].identity = req[r].out
           /\ req[r].uuid = {}
           /\ req[r].queries = 0
           /\ req[r].answer = {}

\* With a store configured, a valid access token whose email is empty and
\* whose subject is no UUID has ended as TokenInvalid
C11_Witness ==
    \E r \in Ended :
        /\ req[r].op = "get_current_user"
        /\ ~TestModeOrNoStore
        /\ ValidAt(TokenOf(r), req[r].at)
        /\ Get(ClaimsOf(r), "type") = {"access"}
        /\ Get(ClaimsOf(r), "sub") = {MalformedSub}
        /\ Get(ClaimsOf(r), "email") = {<<>>}
        /\ KindOf(r) = "TokenInvalid"

---------------------------------------------------------------------------
(* C12 *)

\* C12: a call of verify_refresh_token ends at once, has queried no profile
\* store and has built no identity; it ends with the claims, with
\* TokenExpired or with TokenInvalid; on a validly signed, unexpired token
\* of type refresh it returns exactly the token's claims, whether or not
\* they hold a subject or an email.
C12_RefreshReturnsClaims ==
    \A r \in Calls :
        req[r].op = "verify_refresh_token"
        => /\ req[r].pc = "done"
           /\ req[r].queries = 0 /\ req[r].answer = {}
           /\ req[r].identity = {} /\ req[r].uuid = {}
           /\ Outcome(r).user = {}
           /\ KindOf(r) \in {"Claims", "TokenExpired", "TokenInvalid"}
           /\ (ValidAt(TokenOf(r), req[r].at)
                  /\ Get(ClaimsOf(r), "type") = {"refresh"})
              => req[r].out = {ReturnedClaims(ClaimsOf(r))}

\* A refresh token without subject and email was accepted, with a store
\* configured
C12_Witness ==
    \E r \in Ended :
        /\ req[r].op = "verify_refresh_token"
        /\ ~TestModeOrNoStore
        /\ DOMAIN ClaimsOf(r) = {"type", "exp"}
        /\ KindOf(r) = "Claims"
        /\ Outcome(r).claims = {ClaimsOf(r)}

---------------------------------------------------------------------------
(* C13 *)

\* The call ended with a fallback identity: get_current_user returned an
\* identity without a query, or after a query that raised or gave no record
FallbackIdentity(r) ==
    /\ Resolving(r)
    /\ req[r].pc = "done"
    /\ \E o \in req[r].identity : o.kind = "User"
    /\ \/ req[r].queries = 0
       \/ \E a \in req[r].answer : a.raised # "" \/ a.data \in {{}, {<<>>}}

\* The identities the resolver returned in the call
IdentitiesOf(r) == UNION {o.user : o \in req[r].identity}

\* C13, as stated: the display name of a fallback identity is the text of
\* the email before "@", and the subject ID string (as the token has it, or
\* in canonical form) when there is no such text; the role is "student".
C13_FallbackNameOrSubject ==
    \A r \in Calls :
        FallbackIdentity(r)
        => \A u \in IdentitiesOf(r) :
              /\ u.role = "student"
              /\ IF TextBeforeAt(u.email) # <<>>
                 THEN u.full_name = TextBeforeAt(u.email)
                 ELSE u.full_name \in {ClaimsOf(r)["sub"], UuidStr(u.user_id)}

\* C13, amended: the display name is the text of the email before its first
\* "@" when there is such a text, "user" when the email begins with "@",
\* and the canonical text of the subject UUID when the email has no "@";
\* the role is "student".
C13_FallbackName ==
    \A r \in Calls :
        FallbackIdentity(r)
        => \A u \in IdentitiesOf(r) :
              /\ u.role = "student"
              /\ u.full_name =
                    IF TextBeforeAt(u.email) # <<>> THEN TextBeforeAt(u.email)
                    ELSE IF IndexOf(u.email, "@") = 1 THEN <<"u", "s", "e", "r">>
                    ELSE UuidStr(u.user_id)

\* After a failed lookup, a subject of 32 upper-case digits with the email
\* "bob" is named by the canonical UUID text, which is not the subject
\* claim's text
C13_Witness ==
    \E r \in Ended :
        /\ FallbackIdentity(r)
        /\ req[r].queries = 1
        /\ Get(ClaimsOf(r), "sub") = {CompactSub}
        /\ \E u \in IdentitiesOf(r) :
              /\ u.email = BareEmail
              /\ u.full_name = UuidStr(Rep("a", 32))
              /\ u.full_name # CompactSub

---------------------------------------------------------------------------
(* C14 *)

\* The store answered the query of the call with a list of records
RecordsOf(r) == UNION {a.data : a \in {b \in req[r].answer : b.raised = ""}}

\* C14, as stated: when the store answers the lookup with at least one
\* record, get_current_user returns the identity with the subject UUID of
\* the token and the full_name, email and role of the first record; when it
\* answers with no record, get_current_user returns the fallback identity.
C14_StoreBranchSucceeds ==
    \A r \in Ended :
        (Resolving(r) /\ req[r].queries = 1)
        => \A records \in RecordsOf(r) :
              /\ \A o \in req[r].identity : o.kind = "User"
              /\ IF records = <<>>
                 THEN FallbackIdentity(r)
                 ELSE \A u \in IdentitiesOf(r) :
                        /\ {u.user_id} = req[r].uuid
                        /\ \A f \in {"full_name", "email", "role"} :
                              f \in DOMAIN records[1] /\ u[f] = records[1][f]

---------------------------------------------------------------------------
(* C15 *)

\* The answer is a failed lookup or one without a record
FailedOrEmpty(answer) == answer.raised # "" \/ answer.data \in {{}, {<<>>}}

\* C15: no step brings the queries of a call above one, and the step that
\* takes the store's answer ends the call without a further query, with
\* the fallback identity when the lookup raised or gave no record.
C15_SingleQuery ==
    [][\A r \in Requests :
          /\ req'[r].queries <= 1
          /\ (req[r].pc = "lookup" /\ req'[r] # req[r])
             => /\ req'[r].pc = "done"
                /\ req'[r].queries = req[r].queries
                /\ \A a \in req'[r].answer :
                      FailedOrEmpty(a)
                      => req'[r].identity =
                           {Returned({build_fallback_user(
                               (CHOOSE p \in req[r].payload : TRUE)["email"],
                               CHOOSE u \in req[r].uuid : TRUE)})}]_vars

\* A call ended with the fallback identity after its one query raised
C15_Witness ==
    \E r \in Ended :
        /\ req[r].queries = 1
        /\ \E a \in req[r].answer : a.raised = "execute"
        /\ FallbackIdentity(r)

---------------------------------------------------------------------------
(* C16 *)

\* What get_current_user gives for the token, the time of the call and the
\* store's answer of request r alone: nothing yet while the answer is
\* awaited
OwnResolution(r) ==
    LET res == ResolveFromToken(TokenOf(r), req[r].at, settings)
    IN  IF ~res.wait THEN res.out
        ELSE {ResolveFromStore(a, ClaimsOf(r)["email"],
                               CHOOSE u \in res.uuid : TRUE) : a \in req[r].answer}

\* C16: with two requests served together, a request that has been taken
\* up and has no result yet is waiting for its own lookup and for nothing
\* else (its own token needs the store, its one query is out, and any
\* answer of the store can be handed to it, whatever the other request is
\* doing); what a request has got is what its own token, the time of its
\* call and its own answer give.
C16_RequestsIndependent ==
    \A r \in InFlight :
        req[r].pc # "idle"
        => /\ req[r].identity = {}
              => /\ req[r].pc = "lookup"
                 /\ req[r].queries = 1
                 /\ ResolveFromToken(TokenOf(r), req[r].at, settings).wait
           /\ req[r].pc = "lookup"
              => \A answer \in StoreAnswers : ENABLED ProfileLookupReturns(r, answer)
           /\ req[r].identity = OwnResolution(r)
           /\ req[r].out = {Gate(req[r].op, o) : o \in req[r].identity}

\* While the lookup of r1 is still pending, r2 has started after it with
\* the other token and has ended with its own identity
C16_Witness ==
    /\ req["r1"].pc = "lookup"
    /\ req["r2"].pc = "done"
    /\ req["r2"].queries = 1
    /\ req["r2"].token # req["r1"].token
    /\ \E o \in req["r2"].out : o.kind = "User"
    /\ now > req["r1"].at

---------------------------------------------------------------------------
(* C17 *)

\* Test mode, for the validator: the TESTING field is true, or the process
\* runs under pytest
TestMode ==
    \/ boot.TESTING = {TRUE}
    \/ "PYTEST_CURRENT_TEST" \in DOMAIN environ /\ environ["PYTEST_CURRENT_TEST"] # <<>>

\* At least 32 characters, with an upper-case letter, a lower-case letter,
\* a digit and a character that is none of these
StrongKey(v) ==
    /\ Len(v) >= 32
    /\ \E i \in 1 .. Len(v) : isupper(v[i])
    /\ \E i \in 1 .. Len(v) : islower(v[i])
    /\ \E i \in 1 .. Len(v) : isdigit(v[i])
    /\ \E i \in 1 .. Len(v) : ~isupper(v[i]) /\ ~islower(v[i]) /\ ~isdigit(v[i])

\* The validator returned the key
KeyAccepted == \E res \in boot.result : res.error = "" /\ res.value = {boot.v}

\* C17, as stated: outside test mode a key is accepted exactly when it is
\* strong; in test mode every key is accepted.
C17_StrongOrTestMode ==
    boot.result # {} => (KeyAccepted <=> (TestMode \/ StrongKey(boot.v)))

\* C17, amended: the empty key is rejected in every mode; a non-empty key is
\* accepted in test mode, and outside test mode exactly when it is strong.
C17_NonEmptyStrongOrTestMode ==
    boot.result # {}
    => (KeyAccepted <=> (boot.v # <<>> /\ (TestMode \/ StrongKey(boot.v))))

\* Outside test mode, a key of exactly 32 characters with the four kinds of
\* character was accepted
C17_Witness ==
    /\ boot.result # {}
    /\ ~TestMode /\ boot.TESTING = {FALSE}
    /\ Len(boot.v) = 32
    /\ StrongKey(boot.v)
    /\ KeyAccepted

---------------------------------------------------------------------------
(* C18 *)

\* Request r presented its token before the instant of the token's exp
BeforeExpiration(r) ==
    "exp" \in DOMAIN ClaimsOf(r) => req[r].at < ExpInstant(TokenOf(r))

\* The presentations of r and q were verified alike: the same decoded
\* claims and subject, the same outcome when the call ended without a
\* lookup, and the same outcome for the same answer of the store
SameVerification(r, q) ==
    /\ req[r].payload = req[q].payload
    /\ req[r].uuid = req[q].uuid
    /\ req[r].queries = req[q].queries
    /\ (req[r].queries = 0 \/ req[r].answer = req[q].answer)
       => req[r].out = req[q].out

\* C18: a step that issues a token leaves the clock, the settings and the
\* requests as they were, and the caller's mapping as it was passed; no
\* step changes the settings; and two presentations of one token to one
\* operation, each before the token's expiration, are verified alike.
C18_Stateless ==
    [][/\ settings' = settings
       /\ wallet' # wallet
          => /\ now' = now /\ req' = req
             /\ \A e \in wallet' \ wallet : e.after = e.data
       /\ \A r, q \in InFlight :
             (/\ req'[r].pc # "idle" /\ req'[q].pc # "idle"
              /\ req'[r].token = req'[q].token
              /\ req'[r].op = req'[q].op
              /\ BeforeExpiration(r)' /\ BeforeExpiration(q)')
             => SameVerification(r, q)']_vars

\* An access token issued from a mapping with type and exp entries of its
\* own was presented twice to get_current_user, at different times before
\* its expiration, and resolved to the same identity
C18_Witness ==
    /\ \E e \in Issued :
          /\ e.by = "create_access_token"
          /\ Get(e.after, "type") = {"refresh"}
          /\ req["r1"].token = {e.token}
    /\ req["r1"].op = "get_current_user" /\ req["r2"].op = "get_current_user"
    /\ req["r1"].token = req["r2"].token
    /\ req["r1"].at < req["r2"].at
    /\ BeforeExpiration("r2")
    /\ KindOf("r1") = "User"
    /\ req["r1"].out = req["r2"].out

---------------------------------------------------------------------------
(* C19 *)

\* e2e_cleanup has ended with status 0, having been run right after e2e_seed
CleanedAfterSeeding ==
    /\ script.name = "e2e_cleanup" /\ script.last = "e2e_seed"
    /\ script.pc = "exit" /\ script.status = {0}

\* C19, as stated: after e2e_seed followed by a successful e2e_cleanup, no
\* user, profile, course, lesson, enrollment or progress record that the
\* seeding created is left in the stores.
C19_CleanupRemovesSeeded ==
    CleanedAfterSeeding => script.seeded \cap Items(stores) = {}

---------------------------------------------------------------------------
(* C20 *)

\* The TESTING setting is true and ENVIRONMENT is not "production"
TestingAndNotProduction ==
    /\ settings.TESTING
    /\ "ENVIRONMENT" \in DOMAIN environ
          => environ["ENVIRONMENT"] # <<"p", "r", "o", "d", "u", "c", "t", "i", "o", "n">>

\* C20: in a configuration other than TESTING true with ENVIRONMENT not
\* "production", no step of e2e_cleanup changes a store, and the step
\* after the start of main() ends the script with status 1.
C20_CleanupGuarded ==
    [][(script'.name = "e2e_cleanup" /\ ~TestingAndNotProduction)
       => /\ stores' = stores
          /\ script'.pc \in {"safety_check", "exit"}
          /\ script'.pc = "exit" => script'.status = {1}]_vars

\* With TESTING true and ENVIRONMENT "production", e2e_cleanup has ended
\* with status 1 on stores that hold seeded data
C20_Witness ==
    /\ script.name = "e2e_cleanup" /\ script.pc = "exit" /\ script.status = {1}
    /\ settings.TESTING
    /\ Get(environ, "ENVIRONMENT") = {<<"p", "r", "o", "d", "u", "c", "t", "i", "o", "n">>}
    /\ script.seeded # {}
    /\ script.seeded \subseteq Items(stores)
    /\ stores = script.before

---------------------------------------------------------------------------
(* C21 *)

\* The first step of the resolver that the token fails at time t, with the
\* failure that step reports; "branch" when the token passes the four checks
FirstFailingStep(token, t) ==
    IF ~SignatureVerifies(token)
    THEN [step |-> "signature", kind |-> "TokenInvalid",
          detail |-> "Invalid authentication credentials"]
    ELSE IF "exp" \in DOMAIN token.payload /\ t >= ExpInstant(token)
    THEN [step |-> "expiration", kind |-> "TokenExpired", detail |-> "Token expired"]
    ELSE IF Get(token.payload, "type") # {"access"}
    THEN [step |-> "type", kind |-> "TokenInvalid", detail |-> "Invalid token type"]
    ELSE IF AbsentOrEmpty(token, "sub") \/ AbsentOrEmpty(token, "email")
    THEN [step |-> "presence", kind |-> "TokenInvalid",
          detail |-> "Invalid token payload"]
    ELSE IF ~WellFormedUuid(token.payload["sub"])
    THEN [step |-> "uuid", kind |-> "ValidationError",
          detail |-> "Invalid user ID format"]
    ELSE [step |-> "branch", kind |-> "", detail |-> ""]

\* C21: a call of the resolver reports the failure of the first step its
\* token fails, in the order signature, expiration, type tag, presence of
\* subject and email, UUID parsing, and makes no lookup then; a token that
\* passes the four checks reaches the resolution branch, where none of
\* these failures is reported.
C21_FirstFailingStepReported ==
    \A r \in Calls :
        Resolving(r)
        => LET first == FirstFailingStep(TokenOf(r), req[r].at)
           IN  IF first.step # "branch"
               THEN /\ req[r].pc = "done"
                    /\ KindOf(r) = first.kind
                    /\ Outcome(r).detail = first.detail
                    /\ req[r].queries = 0
               ELSE /\ KindOf(r) \notin {"TokenExpired", "TokenInvalid", "ValidationError"}
                    /\ req[r].uuid # {}

\* A validly signed, unexpired token of the wrong type that carries no email
\* has failed on the type check
C21_Witness ==
    \E r \in Ended :
        /\ req[r].op = "get_current_user"
        /\ ValidAt(TokenOf(r), req[r].at)
        /\ Get(ClaimsOf(r), "type") = {"refresh"}
        /\ AbsentOrEmpty(TokenOf(r), "email")
        /\ ~AbsentOrEmpty(TokenOf(r), "sub")
        /\ Outcome(r) = HTTPException("TokenInvalid", 401, "Invalid token type")

---------------------------------------------------------------------------
(* C22 *)

\* The outcomes a call of the operation may end in
ClosedOutcomes(op) ==
    {"User", "TokenExpired", "TokenInvalid", "ValidationError"}
        \cup (IF op = "get_current_admin" THEN {"AuthorizationError"} ELSE {})

\* C22, as stated: whatever the token and whatever the store answers, a
\* call of get_current_user that has ended has exactly one outcome, which
\* is a User identity, TokenExpired, TokenInvalid or ValidationError; a call
\* of get_current_admin may end in AuthorizationError besides.
C22_ClosedOutcomeSet ==
    \A r \in Ended :
        Resolving(r)
        => /\ Cardinality(req[r].out) = 1
           /\ KindOf(r) \in ClosedOutcomes(req[r].op)
           /\ KindOf(r) = "User" => Outcome(r).user # {}

---------------------------------------------------------------------------
(* C23 *)

\* The users of the local database, and the profiles of Supabase, under
\* one of the fixed test emails
TestUsers == {u \in stores.users : u.email \in Range(TEST_USER_EMAILS)}
TestSupabaseProfiles ==
    {x \in stores.sb_profiles : x.email \in Range(TEST_USER_EMAILS)}

\* The row belongs to one of the fixed test identifiers: a user under a
\* test email, the profile of such a user, a row of such a user, a course
\* under a test slug, an account of Supabase under a test email
TiedToTestIdentifiers(item) ==
    CASE item.table = "users" -> item.row \in TestUsers
      [] item.table = "profiles" -> \E u \in TestUsers : u.id = item.row.id
      [] item.table \in {"sessions", "activity", "enrollments", "progress"}
            -> \E u \in TestUsers : u.id = item.row.user_id
      [] item.table = "courses" -> item.row.slug \in Range(TEST_COURSE_SLUGS)
      [] item.table = "sb_profiles" -> item.row \in TestSupabaseProfiles
      [] item.table = "sb_auth"
            -> \E x \in TestSupabaseProfiles : x.id = item.row.id
      [] OTHER -> FALSE

\* C23: a step of e2e_cleanup adds no row and removes only rows that belong
\* to the fixed test identifiers, whether or not deletions of the step
\* raise; every other row of every table stays as it was.
C23_CleanupDeletesOnlyTestData ==
    [][script.name = "e2e_cleanup" /\ script'.name = "e2e_cleanup"
       => /\ Items(stores') \subseteq Items(stores)
          /\ \A item \in Items(stores) \ Items(stores') :
                TiedToTestIdentifiers(item)]_vars

\* A cleanup has ended with status 0 after a seeding: the deletions for one
\* test email had raised, so that this user is still there while another
\* test user and a test course are gone, and the platform's own user with
\* her enrollment in a test course, progress and session is untouched
C23_Witness ==
    /\ script.name = "e2e_cleanup" /\ script.pc = "exit" /\ script.status = {0}
    /\ \E u \in script.before.users : u.email = "testadmin@example.com"
    /\ \E c \in script.before.courses : c.slug = "ml-foundations"
    /\ \A u \in stores.users : u.email # "testadmin@example.com"
    /\ \E u \in stores.users : u.email = "teststudent@example.com"
    /\ \A c \in stores.courses : c.slug # "ml-foundations"
    /\ \A table \in {"users", "profiles", "enrollments", "progress", "sessions"} :
          /\ OtherData[table] # {}
          /\ OtherData[table] \subseteq stores[table]

---------------------------------------------------------------------------
(* C24 *)

\* C24: an identity of the fallback path (test mode, no store configured,
\* a lookup that raised, a lookup that gave no record) has the role
\* "student", and a call of get_current_admin that got it ends in the
\* authorization failure and returns no identity.
C24_FallbackNeverAdmin ==
    \A r \in DOMAIN req :
        FallbackIdentity(r)
        => /\ \A u \in IdentitiesOf(r) : u.role = "student"
           /\ req[r].op = "get_current_admin"
              => /\ KindOf(r) = "AuthorizationError"
                 /\ Outcome(r).status = 403
                 /\ Outcome(r).user = {}

\* Two administrator requests with the same token: for one the store gave
\* the profile with the role admin and the gate let it through; for the
\* other the lookup raised and the gate rejected the fallback identity
C24_Witness ==
    \E r, q \in DOMAIN req :
        /\ r # q
        /\ req[r].pc = "done" /\ req[q].pc = "done"
        /\ req[r].op = "get_current_admin" /\ req[q].op = "get_current_admin"
        /\ req[r].token = req[q].token
        /\ req[r].answer = {[raised |-> "", data |-> {<<AdminRow>>}]}
        /\ KindOf(r) = "User"
        /\ \E a \in req[q].answer : a.raised = "execute"
        /\ FallbackIdentity(q)
        /\ KindOf(q) = "AuthorizationError"

---------------------------------------------------------------------------
(* C25 *)

\* e2e_seed is running, or has ended, right after a run of e2e_seed that
\* ended with status 0
SeededAgain ==
    /\ script.name = "e2e_seed" /\ script.last = "e2e_seed"
    /\ script.last_status = {0}

---------------------------------------------------------------------------
(* C26 *)

\* The emails of the integration seeder's test users
IntegrationEmails == {u.email : u \in Range(INTEGRATION_TEST_USERS)}

\* The email has an account in the auth store; it has a row in profiles
HasAuthUser(email) == \E a \in stores.sb_auth : a.email = email
HasProfile(email) == \E q \in stores.sb_profiles : q.email = email

\* C26, as stated: after any sequence of runs of seed_test_users and
\* cleanup_test_users of the integration seeder, whichever calls failed, a
\* test email has an account in the auth store exactly when it has a row in
\* the profiles table.
C26_AuthProfilePaired ==
    script.todo = <<>>
    => \A email \in IntegrationEmails : HasAuthUser(email) <=> HasProfile(email)

===========================================================================
